---- MODULE Spec2Model ----
(***************************************************************************)
(* Model of the manifest converter contract: the Denom and Rate value      *)
(* types, the stored Config / Admin / contract-version items and the       *)
(* entry points instantiate, update_admin, update_config, convert, migrate *)
(* and the two queries.                                                    *)
(*                                                                         *)
(* Strings are sequences of one-character strings, so that parsing and     *)
(* formatting are computed character by character as the code does.        *)
(* The 256-bit / 18-decimal fixed-point domain of Decimal256 is scaled to  *)
(* UintBits bits and DecimalPlaces fractional digits; every comparison and *)
(* overflow check is kept, only the two widths are smaller.                *)
(***************************************************************************)
EXTENDS Integers, Sequences, FiniteSets, TLC

\* ------------------------------------------------------------------------
\* Bounds of the model
\* ------------------------------------------------------------------------

\* width in bits of the unsigned integer type (256 in cosmwasm_std::Uint256)
UintBits == 10

\* fractional digits of the fixed-point type (18 in cosmwasm_std::Decimal256)
DecimalPlaces == 1

\* largest number of coin entries of a funds list that is enumerated
MaxFunds == 2

\* largest length of the rate strings that are enumerated
MaxRateLen == 4

RECURSIVE Pow(_, _)
Pow(b, e) == IF e = 0 THEN 1 ELSE b * Pow(b, e - 1)

\* Uint256::MAX
MaxUint == Pow(2, UintBits) - 1

\* Decimal256::DECIMAL_FRACTIONAL
DECIMAL_FRACTIONAL == Pow(10, DecimalPlaces)

\* ------------------------------------------------------------------------
\* Results
\* ------------------------------------------------------------------------

Ok(v) == [ok |-> TRUE, val |-> v, err |-> "none"]
Err(e) == [ok |-> FALSE, val |-> 0, err |-> e]

\* Option<T>
None == [some |-> FALSE]
Some(x) == [some |-> TRUE, v |-> x]
is_none(o) == ~o.some
is_some(o) == o.some

\* ------------------------------------------------------------------------
\* Characters
\* ------------------------------------------------------------------------

DigitVal ==
  [c \in {"0", "1", "2", "3", "4", "5", "6", "7", "8", "9"} |->
     CASE c = "0" -> 0 [] c = "1" -> 1 [] c = "2" -> 2 [] c = "3" -> 3
       [] c = "4" -> 4 [] c = "5" -> 5 [] c = "6" -> 6 [] c = "7" -> 7
       [] c = "8" -> 8 [] c = "9" -> 9]

DigitChar == <<"0", "1", "2", "3", "4", "5", "6", "7", "8", "9">>

is_ascii_digit(c) == c \in DOMAIN DigitVal

is_ascii_lowercase(c) ==
  c \in {"a", "b", "c", "d", "e", "f", "g", "h", "i", "j", "k", "l", "m",
         "n", "o", "p", "q", "r", "s", "t", "u", "v", "w", "x", "y", "z"}

is_ascii_uppercase(c) ==
  c \in {"A", "B", "C", "D", "E", "F", "G", "H", "I", "J", "K", "L", "M",
         "N", "O", "P", "Q", "R", "S", "T", "U", "V", "W", "X", "Y", "Z"}

is_ascii_alphanumeric(c) ==
  is_ascii_digit(c) \/ is_ascii_lowercase(c) \/ is_ascii_uppercase(c)

starts_with(s, p) == Len(s) >= Len(p) /\ SubSeq(s, 1, Len(p)) = p

\* s[n..] : the suffix after the first n characters
SkipPrefix(s, n) == SubSeq(s, n + 1, Len(s))

\* position of the first c in s, 0 when there is none
FindFrom(s, c, i) ==
  IF \A k \in i..Len(s) : s[k] # c THEN 0
  ELSE CHOOSE k \in i..Len(s) : s[k] = c /\ \A j \in i..(k - 1) : s[j] # c

\* str::split(c) : the sequence of segments, always at least one
RECURSIVE split(_, _)
split(s, c) ==
  LET i == FindFrom(s, c, 1)
  IN  IF i = 0 THEN <<s>>
      ELSE <<SubSeq(s, 1, i - 1)>> \o split(SubSeq(s, i + 1, Len(s)), c)

IBC_PREF == <<"i", "b", "c", "/">>
FACTORY_PREF == <<"f", "a", "c", "t", "o", "r", "y", "/">>

\* ------------------------------------------------------------------------
\* bech32::decode, as called by is_factory on the creator segment
\* ------------------------------------------------------------------------

\* the printable ASCII characters 33..126, in code order (codes 34,
\* 92 and 96, the double quote, the backslash and the backtick, are held
\* by placeholders that no input contains)
ASCII ==
  <<"!", "<quote>", "#", "$", "%", "&", "'", "(", ")", "*", "+", ",", "-", ".",
    "/", "0", "1", "2", "3", "4", "5", "6", "7", "8", "9", ":", ";", "<",
    "=", ">", "?", "@", "A", "B", "C", "D", "E", "F", "G", "H", "I", "J",
    "K", "L", "M", "N", "O", "P", "Q", "R", "S", "T", "U", "V", "W", "X",
    "Y", "Z", "[", "<backslash>", "]", "^", "_", "<backtick>", "a", "b", "c", "d", "e", "f",
    "g", "h", "i", "j", "k", "l", "m", "n", "o", "p", "q", "r", "s", "t",
    "u", "v", "w", "x", "y", "z", "{", "|", "}", "~">>

\* the bech32 data alphabet, in value order
CHARSET ==
  <<"q", "p", "z", "r", "y", "9", "x", "8", "g", "f", "2", "t", "v", "d",
    "w", "0", "s", "3", "j", "n", "5", "4", "k", "h", "c", "e", "6", "m",
    "u", "a", "7", "l">>

\* the ASCII code of c, 0 for a character outside 33..126
Code(c) == LET i == FindFrom(ASCII, c, 1) IN IF i = 0 THEN 0 ELSE 32 + i

to_ascii_lowercase(c) == IF is_ascii_uppercase(c) THEN ASCII[Code(c)] ELSE c

to_lowercase(s) == [i \in 1..Len(s) |-> to_ascii_lowercase(s[i])]

\* position of the last c in s, 0 when there is none
rfind(s, c, i) ==
  IF \A k \in 1..i : s[k] # c THEN 0
  ELSE CHOOSE k \in 1..i : s[k] = c /\ \A j \in (k + 1)..i : s[j] # c

RECURSIVE Xor(_, _)
Xor(a, b) ==
  IF a = 0 THEN b
  ELSE IF b = 0 THEN a
  ELSE (((a % 2) + (b % 2)) % 2) + 2 * Xor(a \div 2, b \div 2)

GEN == <<996825010, 642813549, 513874426, 1027748829, 705979059>>

\* one step of the checksum: shift in v, then fold in the generators
\* selected by the five bits b shifted out
PolymodStep(chk, v) ==
  LET b == chk \div 33554432
      c0 == Xor((chk % 33554432) * 32, v)
      c1 == IF b % 2 = 1 THEN Xor(c0, GEN[1]) ELSE c0
      c2 == IF (b \div 2) % 2 = 1 THEN Xor(c1, GEN[2]) ELSE c1
      c3 == IF (b \div 4) % 2 = 1 THEN Xor(c2, GEN[3]) ELSE c2
      c4 == IF (b \div 8) % 2 = 1 THEN Xor(c3, GEN[4]) ELSE c3
  IN  IF (b \div 16) % 2 = 1 THEN Xor(c4, GEN[5]) ELSE c4

\* the checksum residue of the 5-bit values, folded from the left
\* (values[lo..hi] are folded half by half, which keeps the nesting shallow)
RECURSIVE PolymodRange(_, _, _, _)
PolymodRange(values, lo, hi, chk) ==
  IF lo > hi THEN chk
  ELSE IF lo = hi THEN PolymodStep(chk, values[lo])
  ELSE LET mid == (lo + hi) \div 2
           left == PolymodRange(values, lo, mid, chk)
       IN  IF left >= 0 THEN PolymodRange(values, mid + 1, hi, left) ELSE left

polymod(values, i, chk) == PolymodRange(values, i, Len(values), chk)

hrp_expand(hrp) ==
  [i \in 1..Len(hrp) |-> (Code(hrp[i]) \div 32)] \o <<0>> \o
  [i \in 1..Len(hrp) |-> (Code(hrp[i]) % 32)]

HasLower(s) == \E i \in 1..Len(s) : is_ascii_lowercase(s[i])
HasUpper(s) == \E i \in 1..Len(s) : is_ascii_uppercase(s[i])

\* the residues of a valid Bech32 and of a valid Bech32m checksum
BECH32_CONST == 1
BECH32M_CONST == 734539939

\* bech32::decode(s).is_ok()
bech32_decode_ok(s) ==
  LET sep == rfind(s, "1", Len(s))
      hrp == SubSeq(s, 1, sep - 1)
      data == SubSeq(s, sep + 1, Len(s))
      lower == to_lowercase(s)
      values == [i \in 1..Len(data) |-> FindFrom(CHARSET, lower[sep + i], 1) - 1]
  IN  /\ sep # 0
      /\ Len(hrp) >= 1 /\ Len(hrp) <= 83
      /\ \A i \in 1..Len(hrp) : Code(hrp[i]) # 0
      /\ ~(HasLower(s) /\ HasUpper(s))
      /\ \A i \in 1..Len(data) : values[i] >= 0
      /\ Len(data) >= 6
      /\ polymod(hrp_expand(SubSeq(lower, 1, sep - 1)) \o values, 1, 1)
           \in {BECH32_CONST, BECH32M_CONST}

\* ------------------------------------------------------------------------
\* Denom
\* ------------------------------------------------------------------------

\* denom.rs: length limits of the native grammar and of a factory subdenom
NATIVE_MIN_LEN == 3
NATIVE_MAX_LEN == 128
IBC_HASH_LEN == 64
SUBDENOM_MAX_LEN == 128

\* is_native with the lower length limit one too low
is_native_min_len_two(s) ==
  IF ~(Len(s) >= NATIVE_MIN_LEN - 1 /\ Len(s) <= NATIVE_MAX_LEN) THEN FALSE
  ELSE IF s[1] # "u" THEN FALSE
  ELSE \A i \in 2..Len(s) : is_ascii_digit(s[i]) \/ is_ascii_lowercase(s[i])

is_native(s) ==
  IF ~(Len(s) >= NATIVE_MIN_LEN /\ Len(s) <= NATIVE_MAX_LEN) THEN FALSE
  ELSE IF s[1] # "u" THEN FALSE
  ELSE \A i \in 2..Len(s) : is_ascii_digit(s[i]) \/ is_ascii_lowercase(s[i])

\* is_ibc taking the hexadecimal digits in either case
is_ibc_any_case(s) ==
  LET hash == SkipPrefix(s, Len(IBC_PREF))
  IN  IF Len(hash) # IBC_HASH_LEN THEN FALSE
      ELSE \A i \in 1..Len(hash) :
             \/ is_ascii_digit(hash[i])
             \/ hash[i] \in {"A", "B", "C", "D", "E", "F"}
             \/ hash[i] \in {"a", "b", "c", "d", "e", "f"}

is_ibc(s) ==
  LET hash == SkipPrefix(s, Len(IBC_PREF))
  IN  IF Len(hash) # IBC_HASH_LEN THEN FALSE
      ELSE \A i \in 1..Len(hash) :
             is_ascii_digit(hash[i]) \/ hash[i] \in {"A", "B", "C", "D", "E", "F"}

\* is_factory without the look at a third segment
is_factory_extra_segments(s) ==
  LET rest == SkipPrefix(s, Len(FACTORY_PREF))
      it == split(rest, "/")
  IN  IF Len(it) < 2 THEN FALSE
      ELSE IF ~bech32_decode_ok(it[1]) THEN FALSE
      ELSE IF it[2] = <<>> \/ Len(it[2]) > SUBDENOM_MAX_LEN THEN FALSE
      ELSE \A i \in 1..Len(it[2]) :
             is_ascii_alphanumeric(it[2][i]) \/ it[2][i] \in {".", ":", "_", "-"}

is_factory(s) ==
  LET rest == SkipPrefix(s, Len(FACTORY_PREF))
      it == split(rest, "/")
  IN  IF Len(it) < 2 THEN FALSE
      ELSE IF Len(it) > 2 THEN FALSE
      ELSE IF ~bech32_decode_ok(it[1]) THEN FALSE
      ELSE IF it[2] = <<>> \/ Len(it[2]) > SUBDENOM_MAX_LEN THEN FALSE
      ELSE \A i \in 1..Len(it[2]) :
             is_ascii_alphanumeric(it[2][i]) \/ it[2][i] \in {".", ":", "_", "-"}

\* Denom::validate trying a string its prefixed grammar refused as a native one
DenomValidate_fallback(s) ==
  IF s = <<>> THEN Err("EmptyDenom")
  ELSE IF starts_with(s, IBC_PREF) /\ is_ibc(s) THEN Ok(s)
  ELSE IF starts_with(s, FACTORY_PREF) /\ is_factory(s) THEN Ok(s)
  ELSE IF ~is_native(s) THEN Err("InvalidDenomFormat")
  ELSE Ok(s)

\* Denom::validate
DenomValidate(s) ==
  IF s = <<>> THEN Err("EmptyDenom")
  ELSE IF starts_with(s, IBC_PREF)
    THEN IF ~is_ibc(s) THEN Err("InvalidIbcDenomFormat") ELSE Ok(s)
  ELSE IF starts_with(s, FACTORY_PREF)
    THEN IF ~is_factory(s) THEN Err("InvalidFactoryDenomFormat") ELSE Ok(s)
  ELSE IF ~is_native(s) THEN Err("InvalidDenomFormat")
  ELSE Ok(s)

\* Denom::new : the validated wrapper holds the input string itself
DenomNew(s) == DenomValidate(s)

\* ------------------------------------------------------------------------
\* Uint256 and Decimal256 (cosmwasm_std), as used by Rate
\* ------------------------------------------------------------------------

\* Uint256::from_str : a non-empty string of decimal digits that fits
RECURSIVE ParseDigits(_, _, _)
ParseDigits(s, i, acc) ==
  IF i > Len(s) THEN Ok(acc)
  ELSE IF ~is_ascii_digit(s[i]) THEN Err("ParseInt")
  ELSE IF acc * 10 + DigitVal[s[i]] > MaxUint THEN Err("ParseIntOverflow")
  ELSE ParseDigits(s, i + 1, acc * 10 + DigitVal[s[i]])

UintFromStr(s) == IF s = <<>> THEN Err("ParseIntEmpty") ELSE ParseDigits(s, 1, 0)

\* Uint256::to_string
RECURSIVE UintToString(_)
UintToString(n) ==
  IF n < 10 THEN <<DigitChar[n + 1]>>
  ELSE UintToString(n \div 10) \o <<DigitChar[(n % 10) + 1]>>

\* format!("{:0>padding$}", n) : left-padded with zeros to the given width
RECURSIVE PadLeft(_, _)
PadLeft(s, width) == IF Len(s) >= width THEN s ELSE PadLeft(<<"0">> \o s, width)

\* str::trim_end_matches('0')
RECURSIVE TrimEndZeros(_)
TrimEndZeros(s) ==
  IF s # <<>> /\ s[Len(s)] = "0" THEN TrimEndZeros(SubSeq(s, 1, Len(s) - 1)) ELSE s

\* Decimal256::from_str : the atomics of the parsed value
Decimal256FromStr(s) ==
  LET parts == split(s, ".")
      whole == UintFromStr(parts[1])
      fractional == UintFromStr(parts[2])
      exp == DecimalPlaces - Len(parts[2])
  IN  IF ~whole.ok THEN Err("Error parsing whole")
      ELSE IF whole.val * DECIMAL_FRACTIONAL > MaxUint THEN Err("Value too big")
      ELSE IF Len(parts) = 1 THEN Ok(whole.val * DECIMAL_FRACTIONAL)
      ELSE IF ~fractional.ok THEN Err("Error parsing fractional")
      ELSE IF exp < 0 THEN Err("Cannot parse more fractional digits")
      ELSE IF whole.val * DECIMAL_FRACTIONAL + fractional.val * Pow(10, exp) > MaxUint
        THEN Err("Value too big")
      ELSE IF Len(parts) > 2 THEN Err("Unexpected number of dots")
      ELSE Ok(whole.val * DECIMAL_FRACTIONAL + fractional.val * Pow(10, exp))

\* Decimal256::to_string of the value with the given atomics
Decimal256ToString(atomics) ==
  LET whole == atomics \div DECIMAL_FRACTIONAL
      fractional == atomics % DECIMAL_FRACTIONAL
  IN  IF fractional = 0 THEN UintToString(whole)
      ELSE UintToString(whole) \o <<".">> \o
           TrimEndZeros(PadLeft(UintToString(fractional), DecimalPlaces))

\* from_atomics without the range check of the scaled amount
Decimal256FromAtomics0_unchecked(amount) == Ok(amount * DECIMAL_FRACTIONAL)

\* Decimal256::from_atomics(amount, 0)
Decimal256FromAtomics0(amount) ==
  IF amount * DECIMAL_FRACTIONAL > MaxUint THEN Err("DecimalRangeExceeded")
  ELSE Ok(amount * DECIMAL_FRACTIONAL)

\* the product narrowed by dropping the bits above the integer width
Decimal256WrappingMul(a, b) ==
  Ok(((a * b) \div DECIMAL_FRACTIONAL) % (MaxUint + 1))

\* the product checked for overflow before the division by the scale
Decimal256NarrowMul(a, b) ==
  IF a * b > MaxUint THEN Err("Overflow") ELSE Ok((a * b) \div DECIMAL_FRACTIONAL)

\* Decimal256::checked_mul : full-width product, divided by the scale, then
\* narrowed with an overflow check
Decimal256CheckedMul(a, b) ==
  LET wide == (a * b) \div DECIMAL_FRACTIONAL
  IN  IF wide > MaxUint THEN Err("Overflow") ELSE Ok(wide)

\* the product rounded up instead of down
to_uint_ceil(atomics) == (atomics + DECIMAL_FRACTIONAL - 1) \div DECIMAL_FRACTIONAL

\* Decimal256::to_uint_floor
to_uint_floor(atomics) == atomics \div DECIMAL_FRACTIONAL

\* ------------------------------------------------------------------------
\* Rate (a Rate is held as the atomics of its Decimal256)
\* ------------------------------------------------------------------------

\* validate accepting the zero rate
RateValidate_accepts_zero(atomics) == Ok(atomics)

\* Rate::validate
RateValidate(atomics) == IF atomics # 0 THEN Ok(atomics) ELSE Err("InvalidRateZero")

\* Rate::new
RateNew(atomics) == RateValidate(atomics)

\* Rate::_parse
Rate_parse(s) ==
  LET d == Decimal256FromStr(s)
  IN  IF d.ok THEN Ok(d.val) ELSE Err("InvalidRateParsing")

\* Rate::parse
RateParse(s) ==
  LET d == Rate_parse(s)
  IN  IF ~d.ok THEN d ELSE RateNew(d.val)

\* Rate::to_string (Display)
RateToString(rate) == Decimal256ToString(rate)

\* Rate::apply_to
apply_to(rate, amount) ==
  LET amount_dec == Decimal256FromAtomics0(amount)
      res == Decimal256CheckedMul(rate, amount_dec.val)
      floor == to_uint_floor(res.val)
  IN  IF amount = 0 THEN Err("AmountIsZero")
      ELSE IF ~amount_dec.ok THEN Err("AmountExceedsMax")
      ELSE IF ~res.ok THEN Err("ApplyOverflowError")
      ELSE IF floor = 0 THEN Err("ApplyZeroError")
      ELSE Ok(floor)

\* ------------------------------------------------------------------------
\* Host collaborators: address validation, payment helpers, admin controller,
\* contract-version record
\* ------------------------------------------------------------------------

\* consts.rs
CONTRACT_NAME == "manifest/converter"
CONTRACT_VERSION == "CARGO_PKG_VERSION"

\* the address of this contract instance (env.contract.address)
CONTRACT_ADDR == "manifest1contract"

\* the bech32 addresses the host's address validation accepts
ValidAddrs == {"manifest1admin", "manifest1user", "manifest1poa", "manifest1poa2"}

\* deps.api.addr_validate : a valid address is returned as given
addr_validate(s) == IF s \in ValidAddrs THEN Ok(s) ELSE Err("StdError")

\* cw_utils::nonpayable : an error as soon as the funds list has an entry
nonpayable(info) == IF info.funds = <<>> THEN Ok(0) ELSE Err("NonPayable")

\* one_coin without the check of the single coin's amount
one_coin_accepts_zero(info) ==
  IF Len(info.funds) = 0 THEN Err("NoFunds")
  ELSE IF Len(info.funds) = 1 THEN Ok(info.funds[1])
  ELSE Err("MultipleDenoms")

\* one_coin taking the first entry of a list with several entries
one_coin_takes_first(info) ==
  IF Len(info.funds) = 0 THEN Err("NoFunds")
  ELSE IF info.funds[1].amount = 0 THEN Err("NoFunds")
  ELSE Ok(info.funds[1])

\* cw_utils::one_coin : the single coin of the funds list; no entry, a single
\* entry of amount zero, and more than one entry are errors
one_coin(info) ==
  IF Len(info.funds) = 0 THEN Err("NoFunds")
  ELSE IF Len(info.funds) = 1
    THEN IF info.funds[1].amount = 0 THEN Err("NoFunds") ELSE Ok(info.funds[1])
  ELSE Err("MultipleDenoms")

\* cw_controllers::Admin::is_admin
is_admin(st, caller) == is_some(st.ADMIN) /\ st.ADMIN.v = caller

\* assert_admin letting every caller through
assert_admin_anyone(st, caller) == Ok(0)

\* cw_controllers::Admin::assert_admin
assert_admin(st, caller) == IF is_admin(st, caller) THEN Ok(0) ELSE Err("NotAdmin")

\* ------------------------------------------------------------------------
\* Config and UpdateConfig
\* ------------------------------------------------------------------------

\* Config::validate
ConfigValidate(config) ==
  IF config.source_denom = config.target_denom THEN Err("SameDenom") ELSE Ok(0)

\* is_empty that holds of no request
is_empty_never(config) == FALSE

\* is_empty that does not look at the paused field
is_empty_without_paused(config) ==
  /\ is_none(config.poa_admin)
  /\ is_none(config.rate)
  /\ is_none(config.source_denom)
  /\ is_none(config.target_denom)

\* UpdateConfig::is_empty
is_empty(config) ==
  /\ is_none(config.poa_admin)
  /\ is_none(config.rate)
  /\ is_none(config.source_denom)
  /\ is_none(config.target_denom)
  /\ is_none(config.paused)

\* is_noop that holds only of a request with all five fields set
is_noop_all_fields_required(config, other) ==
  /\ is_some(config.poa_admin) /\ config.poa_admin.v = other.poa_admin
  /\ is_some(config.rate) /\ config.rate.v = RateToString(other.rate)
  /\ is_some(config.source_denom) /\ config.source_denom.v = other.source_denom
  /\ is_some(config.target_denom) /\ config.target_denom.v = other.target_denom
  /\ is_some(config.paused) /\ config.paused.v = other.paused

\* UpdateConfig::is_noop : every set field equals the serialized current one
is_noop(config, other) ==
  /\ (is_none(config.poa_admin) \/ config.poa_admin.v = other.poa_admin)
  /\ (is_none(config.rate) \/ config.rate.v = RateToString(other.rate))
  /\ (is_none(config.source_denom) \/ config.source_denom.v = other.source_denom)
  /\ (is_none(config.target_denom) \/ config.target_denom.v = other.target_denom)
  /\ (is_none(config.paused) \/ config.paused.v = other.paused)

\* ------------------------------------------------------------------------
\* Entry points.  Each is a function of the storage st = [CONFIG, ADMIN,
\* contract_version], the call's info = [sender, funds] and its message, and
\* yields the error or response together with the storage as the code leaves
\* it (the host's rollback of a failed call is not relied on), and the
\* number of loads and saves of the CONFIG item.
\* ------------------------------------------------------------------------

Failure(e, st, loads) ==
  [err |-> e, note |-> "", messages |-> <<>>, data |-> None, st |-> st,
   loads |-> loads, saves |-> 0]

Response(note, messages, st, loads, saves) ==
  [err |-> "none", note |-> note, messages |-> messages, data |-> None, st |-> st,
   loads |-> loads, saves |-> saves]

\* instantiate recording the contract version before the configuration is validated
instantiate_version_first(st, info, msg) ==
  LET admin == addr_validate(msg.admin)
      poa_admin == addr_validate(msg.poa_admin)
      rate == RateParse(msg.rate)
      source_denom == DenomNew(msg.source_denom)
      target_denom == DenomNew(msg.target_denom)
      config == [poa_admin |-> poa_admin.val, rate |-> rate.val,
                 source_denom |-> source_denom.val,
                 target_denom |-> target_denom.val, paused |-> msg.paused]
  IN  IF ~nonpayable(info).ok THEN Failure("NonPayable", st, 0)
      ELSE IF ~admin.ok THEN Failure(admin.err, st, 0)
      ELSE IF ~poa_admin.ok THEN Failure(poa_admin.err, st, 0)
      ELSE IF ~rate.ok THEN Failure(rate.err, st, 0)
      ELSE IF ~source_denom.ok THEN Failure(source_denom.err, st, 0)
      ELSE IF ~target_denom.ok THEN Failure(target_denom.err, st, 0)
      ELSE IF ~ConfigValidate(config).ok
        THEN Failure(ConfigValidate(config).err,
                     [st EXCEPT !.contract_version =
                        Some([contract |-> CONTRACT_NAME, version |-> CONTRACT_VERSION])],
                     0)
      ELSE Response("", <<>>,
                    [CONFIG |-> Some(config), ADMIN |-> Some(admin.val),
                     contract_version |->
                       Some([contract |-> CONTRACT_NAME, version |-> CONTRACT_VERSION])],
                    0, 1)

\* instantiate making the sender the admin
instantiate_sender_as_admin(st, info, msg) ==
  LET admin == addr_validate(msg.admin)
      poa_admin == addr_validate(msg.poa_admin)
      rate == RateParse(msg.rate)
      source_denom == DenomNew(msg.source_denom)
      target_denom == DenomNew(msg.target_denom)
      config == [poa_admin |-> poa_admin.val, rate |-> rate.val,
                 source_denom |-> source_denom.val,
                 target_denom |-> target_denom.val, paused |-> msg.paused]
  IN  IF ~nonpayable(info).ok THEN Failure("NonPayable", st, 0)
      ELSE IF ~admin.ok THEN Failure(admin.err, st, 0)
      ELSE IF ~poa_admin.ok THEN Failure(poa_admin.err, st, 0)
      ELSE IF ~rate.ok THEN Failure(rate.err, st, 0)
      ELSE IF ~source_denom.ok THEN Failure(source_denom.err, st, 0)
      ELSE IF ~target_denom.ok THEN Failure(target_denom.err, st, 0)
      ELSE IF ~ConfigValidate(config).ok THEN Failure(ConfigValidate(config).err, st, 0)
      ELSE Response("", <<>>,
                    [CONFIG |-> Some(config), ADMIN |-> Some(info.sender),
                     contract_version |->
                       Some([contract |-> CONTRACT_NAME, version |-> CONTRACT_VERSION])],
                    0, 1)

\* instantiate
\* instantiate that saves the configuration and leaves the admin unset
instantiate_admin_not_set(st, info, msg) ==
  LET admin == addr_validate(msg.admin)
      poa_admin == addr_validate(msg.poa_admin)
      rate == RateParse(msg.rate)
      source_denom == DenomNew(msg.source_denom)
      target_denom == DenomNew(msg.target_denom)
      config == [poa_admin |-> poa_admin.val, rate |-> rate.val,
                 source_denom |-> source_denom.val,
                 target_denom |-> target_denom.val, paused |-> msg.paused]
  IN  IF ~nonpayable(info).ok THEN Failure("NonPayable", st, 0)
      ELSE IF ~admin.ok THEN Failure(admin.err, st, 0)
      ELSE IF ~poa_admin.ok THEN Failure(poa_admin.err, st, 0)
      ELSE IF ~rate.ok THEN Failure(rate.err, st, 0)
      ELSE IF ~source_denom.ok THEN Failure(source_denom.err, st, 0)
      ELSE IF ~target_denom.ok THEN Failure(target_denom.err, st, 0)
      ELSE IF ~ConfigValidate(config).ok THEN Failure(ConfigValidate(config).err, st, 0)
      ELSE Response("", <<>>,
                    [CONFIG |-> Some(config), ADMIN |-> None,
                     contract_version |->
                       Some([contract |-> CONTRACT_NAME, version |-> CONTRACT_VERSION])],
                    0, 1)

\* instantiate comparing the two denominations before it validates the fields
instantiate_same_denom_first(st, info, msg) ==
  LET admin == addr_validate(msg.admin)
      poa_admin == addr_validate(msg.poa_admin)
      rate == RateParse(msg.rate)
      source_denom == DenomNew(msg.source_denom)
      target_denom == DenomNew(msg.target_denom)
      config == [poa_admin |-> poa_admin.val, rate |-> rate.val,
                 source_denom |-> source_denom.val,
                 target_denom |-> target_denom.val, paused |-> msg.paused]
  IN  IF ~nonpayable(info).ok THEN Failure("NonPayable", st, 0)
      ELSE IF msg.source_denom = msg.target_denom THEN Failure("SameDenom", st, 0)
      ELSE IF ~admin.ok THEN Failure(admin.err, st, 0)
      ELSE IF ~poa_admin.ok THEN Failure(poa_admin.err, st, 0)
      ELSE IF ~rate.ok THEN Failure(rate.err, st, 0)
      ELSE IF ~source_denom.ok THEN Failure(source_denom.err, st, 0)
      ELSE IF ~target_denom.ok THEN Failure(target_denom.err, st, 0)
      ELSE Response("", <<>>,
                    [CONFIG |-> Some(config), ADMIN |-> Some(admin.val),
                     contract_version |->
                       Some([contract |-> CONTRACT_NAME, version |-> CONTRACT_VERSION])],
                    0, 1)

instantiate(st, info, msg) ==
  LET admin == addr_validate(msg.admin)
      poa_admin == addr_validate(msg.poa_admin)
      rate == RateParse(msg.rate)
      source_denom == DenomNew(msg.source_denom)
      target_denom == DenomNew(msg.target_denom)
      config == [poa_admin |-> poa_admin.val, rate |-> rate.val,
                 source_denom |-> source_denom.val,
                 target_denom |-> target_denom.val, paused |-> msg.paused]
  IN  IF ~nonpayable(info).ok THEN Failure("NonPayable", st, 0)
      ELSE IF ~admin.ok THEN Failure(admin.err, st, 0)
      ELSE IF ~poa_admin.ok THEN Failure(poa_admin.err, st, 0)
      ELSE IF ~rate.ok THEN Failure(rate.err, st, 0)
      ELSE IF ~source_denom.ok THEN Failure(source_denom.err, st, 0)
      ELSE IF ~target_denom.ok THEN Failure(target_denom.err, st, 0)
      ELSE IF ~ConfigValidate(config).ok THEN Failure(ConfigValidate(config).err, st, 0)
      ELSE Response("", <<>>,
                    [CONFIG |-> Some(config), ADMIN |-> Some(admin.val),
                     contract_version |->
                       Some([contract |-> CONTRACT_NAME, version |-> CONTRACT_VERSION])],
                    0, 1)

\* migrate storing the configuration again, with the pause flag cleared
migrate_unpauses(st) ==
  LET stored == st.contract_version
      unpaused == [st EXCEPT !.CONFIG = Some([st.CONFIG.v EXCEPT !.paused = FALSE])]
  IN  IF is_none(stored) THEN Failure("StdError", st, 0)
      ELSE IF stored.v.contract # CONTRACT_NAME THEN Failure("InvalidContractName", st, 0)
      ELSE IF stored.v.version = CONTRACT_VERSION
        THEN Response("already at latest version", <<>>, unpaused, 0, 1)
      ELSE Response("", <<>>,
                    [unpaused EXCEPT !.contract_version =
                       Some([contract |-> CONTRACT_NAME, version |-> CONTRACT_VERSION])],
                    0, 1)

\* migrate that does not record the new version
migrate_version_not_stored(st) ==
  LET stored == st.contract_version
  IN  IF is_none(stored) THEN Failure("StdError", st, 0)
      ELSE IF stored.v.contract # CONTRACT_NAME THEN Failure("InvalidContractName", st, 0)
      ELSE IF stored.v.version = CONTRACT_VERSION
        THEN Response("already at latest version", <<>>, st, 0, 0)
      ELSE Response("", <<>>, st, 0, 0)

\* migrate
migrate(st) ==
  LET stored == st.contract_version
  IN  IF is_none(stored) THEN Failure("StdError", st, 0)
      ELSE IF stored.v.contract # CONTRACT_NAME THEN Failure("InvalidContractName", st, 0)
      ELSE IF stored.v.version = CONTRACT_VERSION
        THEN Response("already at latest version", <<>>, st, 0, 0)
      ELSE Response("", <<>>,
                    [st EXCEPT !.contract_version =
                       Some([contract |-> CONTRACT_NAME, version |-> CONTRACT_VERSION])],
                    0, 0)

\* query::config
query_config(st) ==
  IF is_none(st.CONFIG) THEN Failure("StdError", st, 1)
  ELSE [Response("", <<>>, st, 1, 0) EXCEPT !.data = st.CONFIG]

\* query::admin
query_admin(st) == [Response("", <<>>, st, 0, 0) EXCEPT !.data = Some(st.ADMIN)]

\* update_admin checking the admin before the funds
update_admin_admin_check_first(st, info, admin) ==
  LET new == addr_validate(admin.v)
  IN  IF ~assert_admin(st, info.sender).ok THEN Failure("NotAdmin", st, 0)
      ELSE IF ~nonpayable(info).ok THEN Failure("NonPayable", st, 0)
      ELSE IF is_none(admin) THEN Failure("CannotRenounce", st, 0)
      ELSE IF ~new.ok THEN Failure(new.err, st, 0)
      ELSE Response("", <<>>, [st EXCEPT !.ADMIN = Some(new.val)], 0, 0)

\* update_admin clearing the admin when none is given
update_admin_allows_renounce(st, info, admin) ==
  LET new == addr_validate(admin.v)
  IN  IF ~nonpayable(info).ok THEN Failure("NonPayable", st, 0)
      ELSE IF ~assert_admin(st, info.sender).ok THEN Failure("NotAdmin", st, 0)
      ELSE IF is_none(admin) THEN Response("", <<>>, [st EXCEPT !.ADMIN = None], 0, 0)
      ELSE IF ~new.ok THEN Failure(new.err, st, 0)
      ELSE Response("", <<>>, [st EXCEPT !.ADMIN = Some(new.val)], 0, 0)

\* update_admin answering without storing the new admin
update_admin_not_stored(st, info, admin) ==
  LET new == addr_validate(admin.v)
  IN  IF ~nonpayable(info).ok THEN Failure("NonPayable", st, 0)
      ELSE IF ~assert_admin(st, info.sender).ok THEN Failure("NotAdmin", st, 0)
      ELSE IF is_none(admin) THEN Failure("CannotRenounce", st, 0)
      ELSE IF ~new.ok THEN Failure(new.err, st, 0)
      ELSE Response("", <<>>, st, 0, 0)

\* exec::update_admin
update_admin(st, info, admin) ==
  LET new == addr_validate(admin.v)
  IN  IF ~nonpayable(info).ok THEN Failure("NonPayable", st, 0)
      ELSE IF ~assert_admin(st, info.sender).ok THEN Failure("NotAdmin", st, 0)
      ELSE IF is_none(admin) THEN Failure("CannotRenounce", st, 0)
      ELSE IF ~new.ok THEN Failure(new.err, st, 0)
      ELSE IF ~assert_admin(st, info.sender).ok THEN Failure("NotAdmin", st, 0)
      ELSE Response("", <<>>, [st EXCEPT !.ADMIN = Some(new.val)], 0, 0)


\* exec::update_config, the field-by-field application of the set fields to
\* the in-memory copy of the loaded configuration
ApplyPoaAdmin(current_config, config) ==
  LET poa_admin_addr == addr_validate(config.poa_admin.v)
  IN  IF is_none(config.poa_admin) THEN Ok(current_config)
      ELSE IF ~poa_admin_addr.ok THEN Err(poa_admin_addr.err)
      ELSE Ok([current_config EXCEPT !.poa_admin = poa_admin_addr.val])

\* the rate of the request built by Rate::parse_unchecked
ApplyRate_unchecked(current_config, config) ==
  LET rate == Rate_parse(config.rate.v)
  IN  IF is_none(config.rate) THEN Ok(current_config)
      ELSE IF ~rate.ok THEN Err(rate.err)
      ELSE Ok([current_config EXCEPT !.rate = rate.val])

ApplyRate(current_config, config) ==
  LET rate == RateParse(config.rate.v)
  IN  IF is_none(config.rate) THEN Ok(current_config)
      ELSE IF ~rate.ok THEN Err(rate.err)
      ELSE Ok([current_config EXCEPT !.rate = rate.val])

\* the source denomination compared with the target as soon as it is applied
ApplySourceDenom_checked_at_once(current_config, config) ==
  LET source_denom == DenomNew(config.source_denom.v)
  IN  IF is_none(config.source_denom) THEN Ok(current_config)
      ELSE IF ~source_denom.ok THEN Err(source_denom.err)
      ELSE IF source_denom.val = current_config.target_denom THEN Err("SameDenom")
      ELSE Ok([current_config EXCEPT !.source_denom = source_denom.val])

ApplySourceDenom(current_config, config) ==
  LET source_denom == DenomNew(config.source_denom.v)
  IN  IF is_none(config.source_denom) THEN Ok(current_config)
      ELSE IF ~source_denom.ok THEN Err(source_denom.err)
      ELSE Ok([current_config EXCEPT !.source_denom = source_denom.val])

ApplyTargetDenom(current_config, config) ==
  LET target_denom == DenomNew(config.target_denom.v)
  IN  IF is_none(config.target_denom) THEN Ok(current_config)
      ELSE IF ~target_denom.ok THEN Err(target_denom.err)
      ELSE Ok([current_config EXCEPT !.target_denom = target_denom.val])

\* the paused field of the request left out of the candidate
ApplyPaused_ignored(current_config, config) == Ok(current_config)

\* the paused field applied only when it pauses
ApplyPaused_only_pauses(current_config, config) ==
  IF is_none(config.paused) THEN Ok(current_config)
  ELSE Ok([current_config EXCEPT !.paused = current_config.paused \/ config.paused.v])

ApplyPaused(current_config, config) ==
  IF is_none(config.paused) THEN Ok(current_config)
  ELSE Ok([current_config EXCEPT !.paused = config.paused.v])

\* the candidate accepted without the comparison of its denominations
CandidateCheck_skipped(current_config) == Ok(current_config)

\* exec::update_config, the check made on the candidate before it is saved
CandidateCheck(current_config) ==
  IF current_config.source_denom = current_config.target_denom
    THEN Err("SameDenom")
  ELSE Ok(current_config)

\* update_config saving the candidate before the check of its denominations
update_config_saves_early(st, info, config) ==
  LET current_config == st.CONFIG.v
      c1 == ApplyPoaAdmin(current_config, config)
      c2 == ApplyRate(c1.val, config)
      c3 == ApplySourceDenom(c2.val, config)
      c4 == ApplyTargetDenom(c3.val, config)
      c5 == ApplyPaused(c4.val, config)
      c6 == CandidateCheck(c5.val)
  IN  IF ~nonpayable(info).ok THEN Failure("NonPayable", st, 0)
      ELSE IF ~assert_admin(st, info.sender).ok THEN Failure("NotAdmin", st, 0)
      ELSE IF is_empty(config)
        THEN Response("empty config, no changes made", <<>>, st, 0, 0)
      ELSE IF is_none(st.CONFIG) THEN Failure("StdError", st, 1)
      ELSE IF is_noop(config, current_config)
        THEN Response("identical config, no changes made", <<>>, st, 1, 0)
      ELSE IF ~c1.ok THEN Failure(c1.err, st, 1)
      ELSE IF ~c2.ok THEN Failure(c2.err, st, 1)
      ELSE IF ~c3.ok THEN Failure(c3.err, st, 1)
      ELSE IF ~c4.ok THEN Failure(c4.err, st, 1)
      ELSE IF ~c6.ok THEN Failure(c6.err, [st EXCEPT !.CONFIG = Some(c5.val)], 1)
      ELSE Response("", <<>>, [st EXCEPT !.CONFIG = Some(c6.val)], 1, 1)

\* update_config refusing every request while the contract is paused
update_config_refused_while_paused(st, info, config) ==
  LET current_config == st.CONFIG.v
      c1 == ApplyPoaAdmin(current_config, config)
      c2 == ApplyRate(c1.val, config)
      c3 == ApplySourceDenom(c2.val, config)
      c4 == ApplyTargetDenom(c3.val, config)
      c5 == ApplyPaused(c4.val, config)
      c6 == CandidateCheck(c5.val)
  IN  IF ~nonpayable(info).ok THEN Failure("NonPayable", st, 0)
      ELSE IF ~assert_admin(st, info.sender).ok THEN Failure("NotAdmin", st, 0)
      ELSE IF is_empty(config)
        THEN Response("empty config, no changes made", <<>>, st, 0, 0)
      ELSE IF is_none(st.CONFIG) THEN Failure("StdError", st, 1)
      ELSE IF current_config.paused THEN Failure("Paused", st, 1)
      ELSE IF is_noop(config, current_config)
        THEN Response("identical config, no changes made", <<>>, st, 1, 0)
      ELSE IF ~c1.ok THEN Failure(c1.err, st, 1)
      ELSE IF ~c2.ok THEN Failure(c2.err, st, 1)
      ELSE IF ~c3.ok THEN Failure(c3.err, st, 1)
      ELSE IF ~c4.ok THEN Failure(c4.err, st, 1)
      ELSE IF ~c6.ok THEN Failure(c6.err, st, 1)
      ELSE Response("", <<>>, [st EXCEPT !.CONFIG = Some(c6.val)], 1, 1)

\* update_config applying the denominations before poa_admin and the rate
update_config_denoms_first(st, info, config) ==
  LET current_config == st.CONFIG.v
      c1 == ApplySourceDenom(current_config, config)
      c2 == ApplyTargetDenom(c1.val, config)
      c3 == ApplyPoaAdmin(c2.val, config)
      c4 == ApplyRate(c3.val, config)
      c5 == ApplyPaused(c4.val, config)
      c6 == CandidateCheck(c5.val)
  IN  IF ~nonpayable(info).ok THEN Failure("NonPayable", st, 0)
      ELSE IF ~assert_admin(st, info.sender).ok THEN Failure("NotAdmin", st, 0)
      ELSE IF is_empty(config)
        THEN Response("empty config, no changes made", <<>>, st, 0, 0)
      ELSE IF is_none(st.CONFIG) THEN Failure("StdError", st, 1)
      ELSE IF is_noop(config, current_config)
        THEN Response("identical config, no changes made", <<>>, st, 1, 0)
      ELSE IF ~c1.ok THEN Failure(c1.err, st, 1)
      ELSE IF ~c2.ok THEN Failure(c2.err, st, 1)
      ELSE IF ~c3.ok THEN Failure(c3.err, st, 1)
      ELSE IF ~c4.ok THEN Failure(c4.err, st, 1)
      ELSE IF ~c6.ok THEN Failure(c6.err, st, 1)
      ELSE Response("", <<>>, [st EXCEPT !.CONFIG = Some(c6.val)], 1, 1)

\* exec::update_config
update_config(st, info, config) ==
  LET current_config == st.CONFIG.v
      c1 == ApplyPoaAdmin(current_config, config)
      c2 == ApplyRate(c1.val, config)
      c3 == ApplySourceDenom(c2.val, config)
      c4 == ApplyTargetDenom(c3.val, config)
      c5 == ApplyPaused(c4.val, config)
      c6 == CandidateCheck(c5.val)
  IN  IF ~nonpayable(info).ok THEN Failure("NonPayable", st, 0)
      ELSE IF ~assert_admin(st, info.sender).ok THEN Failure("NotAdmin", st, 0)
      ELSE IF is_empty(config)
        THEN Response("empty config, no changes made", <<>>, st, 0, 0)
      ELSE IF is_none(st.CONFIG) THEN Failure("StdError", st, 1)
      ELSE IF is_noop(config, current_config)
        THEN Response("identical config, no changes made", <<>>, st, 1, 0)
      ELSE IF ~c1.ok THEN Failure(c1.err, st, 1)
      ELSE IF ~c2.ok THEN Failure(c2.err, st, 1)
      ELSE IF ~c3.ok THEN Failure(c3.err, st, 1)
      ELSE IF ~c4.ok THEN Failure(c4.err, st, 1)
      ELSE IF ~c6.ok THEN Failure(c6.err, st, 1)
      ELSE Response("", <<>>, [st EXCEPT !.CONFIG = Some(c6.val)], 1, 1)

\* the messages with the mint addressed to poa_admin instead of the caller
ConvertMessages_mint_to_poa(config, env, info, coin, amt_to_mint) ==
  LET send == [type |-> "BankMsg::Send", to_address |-> config.poa_admin,
               amount |-> <<coin>>]
      burn == [type_url |-> "MsgBurnHeldBalance", authority |-> config.poa_admin,
               burn_coins |-> <<[denom |-> config.source_denom,
                                 amount |-> UintToString(coin.amount)]>>]
      mint == [type_url |-> "MsgMint", sender |-> config.poa_admin,
               amount |-> [denom |-> config.target_denom,
                           amount |-> UintToString(amt_to_mint)],
               mint_to_address |-> config.poa_admin]
      exec == [type_url |-> "MsgExec", grantee |-> env.contract_address,
               msgs |-> <<burn, mint>>]
  IN  <<send, exec>>

\* exec::convert, the two messages of a successful conversion
ConvertMessages(config, env, info, coin, amt_to_mint) ==
  LET send == [type |-> "BankMsg::Send", to_address |-> config.poa_admin,
               amount |-> <<coin>>]
      burn == [type_url |-> "MsgBurnHeldBalance", authority |-> config.poa_admin,
               burn_coins |-> <<[denom |-> config.source_denom,
                                 amount |-> UintToString(coin.amount)]>>]
      mint == [type_url |-> "MsgMint", sender |-> config.poa_admin,
               amount |-> [denom |-> config.target_denom,
                           amount |-> UintToString(amt_to_mint)],
               mint_to_address |-> info.sender]
      exec == [type_url |-> "MsgExec", grantee |-> env.contract_address,
               msgs |-> <<burn, mint>>]
  IN  <<send, exec>>

\* convert checking the funds before the pause flag
convert_pause_checked_late(st, env, info) ==
  LET config == st.CONFIG.v
      coin == one_coin(info)
      amt_to_mint == apply_to(config.rate, coin.val.amount)
  IN  IF is_none(st.CONFIG) THEN Failure("StdError", st, 1)
      ELSE IF ~coin.ok THEN Failure("InvalidFunds", st, 1)
      ELSE IF config.paused THEN Failure("Paused", st, 1)
      ELSE IF coin.val.denom # config.source_denom
        THEN Failure("InvalidSourceDenom", st, 1)
      ELSE IF ~amt_to_mint.ok THEN Failure(amt_to_mint.err, st, 1)
      ELSE Response("", ConvertMessages(config, env, info, coin.val, amt_to_mint.val),
                    st, 1, 0)

\* convert applying the rate before the check of the coin's denomination
convert_rate_before_denom(st, env, info) ==
  LET config == st.CONFIG.v
      coin == one_coin(info)
      amt_to_mint == apply_to(config.rate, coin.val.amount)
  IN  IF is_none(st.CONFIG) THEN Failure("StdError", st, 1)
      ELSE IF config.paused THEN Failure("Paused", st, 1)
      ELSE IF ~coin.ok THEN Failure("InvalidFunds", st, 1)
      ELSE IF ~amt_to_mint.ok THEN Failure(amt_to_mint.err, st, 1)
      ELSE IF coin.val.denom # config.source_denom
        THEN Failure("InvalidSourceDenom", st, 1)
      ELSE Response("", ConvertMessages(config, env, info, coin.val, amt_to_mint.val),
                    st, 1, 0)

\* convert reporting every failure of the rate application as InvalidFunds
convert_rate_error_remapped(st, env, info) ==
  LET config == st.CONFIG.v
      coin == one_coin(info)
      amt_to_mint == apply_to(config.rate, coin.val.amount)
  IN  IF is_none(st.CONFIG) THEN Failure("StdError", st, 1)
      ELSE IF config.paused THEN Failure("Paused", st, 1)
      ELSE IF ~coin.ok THEN Failure("InvalidFunds", st, 1)
      ELSE IF coin.val.denom # config.source_denom
        THEN Failure("InvalidSourceDenom", st, 1)
      ELSE IF ~amt_to_mint.ok THEN Failure("InvalidFunds", st, 1)
      ELSE Response("", ConvertMessages(config, env, info, coin.val, amt_to_mint.val),
                    st, 1, 0)

\* convert addressing its messages to the poa_admin of the first configuration
convert_first_poa_admin(st, env, info) ==
  LET config == st.CONFIG.v
      coin == one_coin(info)
      amt_to_mint == apply_to(config.rate, coin.val.amount)
  IN  IF is_none(st.CONFIG) THEN Failure("StdError", st, 1)
      ELSE IF config.paused THEN Failure("Paused", st, 1)
      ELSE IF ~coin.ok THEN Failure("InvalidFunds", st, 1)
      ELSE IF coin.val.denom # config.source_denom
        THEN Failure("InvalidSourceDenom", st, 1)
      ELSE IF ~amt_to_mint.ok THEN Failure(amt_to_mint.err, st, 1)
      ELSE Response("", ConvertMessages([config EXCEPT !.poa_admin = "manifest1poa"],
                                        env, info, coin.val, amt_to_mint.val),
                    st, 1, 0)

\* exec::convert
convert(st, env, info) ==
  LET config == st.CONFIG.v
      coin == one_coin(info)
      amt_to_mint == apply_to(config.rate, coin.val.amount)
  IN  IF is_none(st.CONFIG) THEN Failure("StdError", st, 1)
      ELSE IF config.paused THEN Failure("Paused", st, 1)
      ELSE IF ~coin.ok THEN Failure("InvalidFunds", st, 1)
      ELSE IF coin.val.denom # config.source_denom
        THEN Failure("InvalidSourceDenom", st, 1)
      ELSE IF ~amt_to_mint.ok THEN Failure(amt_to_mint.err, st, 1)
      ELSE Response("", ConvertMessages(config, env, info, coin.val, amt_to_mint.val),
                    st, 1, 0)

\* ------------------------------------------------------------------------
\* Inputs of the calls
\* ------------------------------------------------------------------------

umfx == <<"u", "m", "f", "x">>
upwr == <<"u", "p", "w", "r">>
uatom == <<"u", "a", "t", "o", "m">>

\* callers of the entry points
Senders == {"manifest1admin", "manifest1user"}

\* address strings of messages: valid ones and one the host rejects
AdminInputs == {"manifest1admin", "manifest1user", "invalid_address"}
PoaInputs == {"manifest1poa", "manifest1poa2", "invalid_address"}

\* rate strings: 0.5, 2.0 (not the canonical form of 2), 2, zero, not a number
RateInputs == {<<"0", ".", "5">>, <<"2", ".", "0">>, <<"2">>, <<"0">>, <<"x">>}

\* denomination strings: three native ones and an ill-formed ibc one
DenomInputs == {umfx, upwr, uatom, <<"i", "b", "c", "/", "a">>}

\* coin amounts: zero, an amount that rounds to zero at rate 0.5, small ones,
\* the largest amount that fits the fixed-point range, the first that does
\* not, and the largest integer
AmountInputs ==
  {0, 1, 2, 10, MaxUint \div DECIMAL_FRACTIONAL, (MaxUint \div DECIMAL_FRACTIONAL) + 1,
   MaxUint}

Coin(amount, denom) == [denom |-> denom, amount |-> amount]

CoinInputs == {Coin(a, d) : a \in AmountInputs, d \in {umfx, upwr, uatom}}

\* coins of the lists with several entries
MultiCoinInputs == {Coin(10, umfx), Coin(0, umfx), Coin(10, upwr)}

RECURSIVE SeqsOfLen(_, _)
SeqsOfLen(S, n) ==
  IF n = 0 THEN {<<>>}
  ELSE {<<x>> \o s : x \in S, s \in SeqsOfLen(S, n - 1)}

\* funds lists of a convert call: none, one coin, or 2..MaxFunds coins
FundsInputs ==
  {<<>>} \cup {<<c>> : c \in CoinInputs}
         \cup UNION {SeqsOfLen(MultiCoinInputs, n) : n \in 2..MaxFunds}

\* funds lists of the calls that take no payment
NonPayableFundsInputs == {<<>>, <<Coin(1, umfx)>>}

OptionOf(S) == {None} \cup {Some(x) : x \in S}

InstantiateMsgs ==
  [admin : AdminInputs, poa_admin : PoaInputs, rate : RateInputs,
   source_denom : DenomInputs, target_denom : DenomInputs, paused : BOOLEAN]

UpdateConfigs ==
  [poa_admin : OptionOf(PoaInputs), rate : OptionOf(RateInputs),
   source_denom : OptionOf(DenomInputs), target_denom : OptionOf(DenomInputs),
   paused : OptionOf(BOOLEAN)]

\* ------------------------------------------------------------------------
\* State
\* ------------------------------------------------------------------------

VARIABLES
  CONFIG,            \* state.rs CONFIG item: None before instantiation
  ADMIN,             \* state.rs ADMIN controller: the admin address, if any
  contract_version,  \* cw2 record: [contract, version], None before instantiation
  call,              \* the call whose response is being delivered: [op, info, msg]
  result,            \* what it returned: [err, note, messages, data, loads, saves]
  pre                \* the storage before that call

vars == <<CONFIG, ADMIN, contract_version, call, result, pre>>

Storage == [CONFIG |-> CONFIG, ADMIN |-> ADMIN, contract_version |-> contract_version]

Env == [contract_address |-> CONTRACT_ADDR]

Info(sender, funds) == [sender |-> sender, funds |-> funds]

\* no call is being answered
NoCall == [op |-> "none", info |-> Info("", <<>>), msg |-> None]
NoResult ==
  [err |-> "none", note |-> "", messages |-> <<>>, data |-> None, loads |-> 0,
   saves |-> 0]
NoStorage == [CONFIG |-> None, ADMIN |-> None, contract_version |-> None]

Init ==
  /\ CONFIG = None
  /\ ADMIN = None
  /\ contract_version = None
  /\ call = NoCall
  /\ result = NoResult
  /\ pre = NoStorage

\* the host runs the calls of an instance one after the other
Idle == call.op = "none"

\* the contract exists once instantiate has succeeded
Instantiated == is_some(CONFIG)

\* a call of the entry point op with the outcome out
Called(op, info, msg, out) ==
  /\ call' = [op |-> op, info |-> info, msg |-> msg]
  /\ pre' = Storage
  /\ result' = [err |-> out.err, note |-> out.note, messages |-> out.messages,
                data |-> out.data, loads |-> out.loads, saves |-> out.saves]
  /\ CONFIG' = out.st.CONFIG
  /\ ADMIN' = out.st.ADMIN
  /\ contract_version' = out.st.contract_version

Instantiate ==
  /\ Idle /\ ~Instantiated
  /\ \E sender \in Senders, funds \in NonPayableFundsInputs, msg \in InstantiateMsgs :
       Called("instantiate", Info(sender, funds), msg,
              instantiate(Storage, Info(sender, funds), msg))

UpdateAdmin ==
  /\ Idle /\ Instantiated
  /\ \E sender \in Senders, funds \in NonPayableFundsInputs,
        admin \in OptionOf(AdminInputs) :
       Called("update_admin", Info(sender, funds), admin,
              update_admin(Storage, Info(sender, funds), admin))

UpdateConfig ==
  /\ Idle /\ Instantiated
  /\ \E sender \in Senders, funds \in NonPayableFundsInputs, config \in UpdateConfigs :
       Called("update_config", Info(sender, funds), config,
              update_config(Storage, Info(sender, funds), config))

Convert ==
  /\ Idle /\ Instantiated
  /\ \E sender \in Senders, funds \in FundsInputs :
       Called("convert", Info(sender, funds), None,
              convert(Storage, Env, Info(sender, funds)))

Migrate ==
  /\ Idle /\ Instantiated
  /\ Called("migrate", Info("", <<>>), None, migrate(Storage))

QueryConfig ==
  /\ Idle /\ Instantiated
  /\ Called("query_config", Info("", <<>>), None, query_config(Storage))

QueryAdmin ==
  /\ Idle /\ Instantiated
  /\ Called("query_admin", Info("", <<>>), None, query_admin(Storage))

\* the response has been handed to the caller; the next call can be made
Return ==
  /\ ~Idle
  /\ call' = NoCall
  /\ result' = NoResult
  /\ pre' = NoStorage
  /\ UNCHANGED <<CONFIG, ADMIN, contract_version>>

Next ==
  \/ Instantiate
  \/ UpdateAdmin
  \/ UpdateConfig
  \/ Convert
  \/ Migrate
  \/ QueryConfig
  \/ QueryAdmin
  \/ Return

Spec == Init /\ [][Next]_vars

\* ------------------------------------------------------------------------
\* Rate::apply_to on its own: every rate of RateAtomicsInputs applied to
\* every amount of the integer type
\* ------------------------------------------------------------------------

\* atomics of the rates applied: every rate up to 2 and a fraction, a rate
\* in the middle of the range and Decimal256::MAX
RateAtomicsInputs == (1..(2 * DECIMAL_FRACTIONAL + 1)) \cup {MaxUint \div 2, MaxUint}

InitRate ==
  /\ CONFIG = None
  /\ ADMIN = None
  /\ contract_version = None
  /\ \E rate \in RateAtomicsInputs, amount \in 0..MaxUint :
       call = [op |-> "apply_to", info |-> Info("", <<>>),
               msg |-> [rate |-> rate, amount |-> amount]]
  /\ result = NoResult
  /\ pre = NoStorage

ApplyTo ==
  /\ call.op = "apply_to"
  /\ result.note # "returned"
  /\ LET out == apply_to(call.msg.rate, call.msg.amount)
     IN  result' = [NoResult EXCEPT !.err = out.err, !.data = Some(out.val),
                                    !.note = "returned"]
  /\ UNCHANGED <<CONFIG, ADMIN, contract_version, call, pre>>

NextRate == ApplyTo

SpecRate == InitRate /\ [][NextRate]_vars

\* ------------------------------------------------------------------------
\* Rate::apply_to of one rate on two amounts, the second at least the first
\* ------------------------------------------------------------------------

\* the amounts compared: every amount that fits the fixed-point range, the
\* first two that do not, and the largest integer
PairAmountInputs == (0..((MaxUint \div DECIMAL_FRACTIONAL) + 2)) \cup {MaxUint}

InitPair ==
  /\ CONFIG = None
  /\ ADMIN = None
  /\ contract_version = None
  /\ \E rate \in RateAtomicsInputs, a \in PairAmountInputs, b \in PairAmountInputs :
       /\ a <= b
       /\ call = [op |-> "apply_to_pair", info |-> Info("", <<>>),
                  msg |-> [rate |-> rate, amount |-> a, larger |-> b]]
  /\ result = NoResult
  /\ pre = NoStorage

ApplyToPair ==
  /\ call.op = "apply_to_pair"
  /\ result.note # "returned"
  /\ result' = [NoResult EXCEPT
                  !.data = Some([first |-> apply_to(call.msg.rate, call.msg.amount),
                                 second |-> apply_to(call.msg.rate, call.msg.larger)]),
                  !.note = "returned"]
  /\ UNCHANGED <<CONFIG, ADMIN, contract_version, call, pre>>

NextPair == ApplyToPair

SpecPair == InitPair /\ [][NextPair]_vars

\* ------------------------------------------------------------------------
\* Rate::parse on its own: every string over RateAlphabet of at most
\* MaxRateLen characters
\* ------------------------------------------------------------------------

\* digits (zero, small, large), the dot, the minus sign and a letter
RateAlphabet == {"0", "1", "5", "9", ".", "-", "x"}

RateStrings == UNION {SeqsOfLen(RateAlphabet, n) : n \in 0..MaxRateLen}

InitParse ==
  /\ CONFIG = None
  /\ ADMIN = None
  /\ contract_version = None
  /\ \E s \in RateStrings :
       call = [op |-> "parse", info |-> Info("", <<>>), msg |-> s]
  /\ result = NoResult
  /\ pre = NoStorage

Parse ==
  /\ call.op = "parse"
  /\ result.note # "returned"
  /\ LET out == RateParse(call.msg)
     IN  result' = [NoResult EXCEPT !.err = out.err, !.data = Some(out.val),
                                    !.note = "returned"]
  /\ UNCHANGED <<CONFIG, ADMIN, contract_version, call, pre>>

NextParse == Parse

SpecParse == InitParse /\ [][NextParse]_vars

\* ------------------------------------------------------------------------
\* Denom::new on its own: the string is drawn at the start and validated once
\* ------------------------------------------------------------------------

\* n copies of the character c
Rep(c, n) == [i \in 1..n |-> c]

\* the string of length n >= 2 with the given first and last characters
Framed(first, fill, last, n) == <<first>> \o Rep(fill, n - 2) \o <<last>>

\* strings of denom.rs's tests
atom == <<"a", "t", "o", "m">>
TestIbcHash == <<"E", "9", "1", "A", "8", "8", "D", "2", "F", "4", "A", "5", "1", "5", "E", "4", "8", "A", "1", "8", "3", "8", "6", "9", "B", "1", "0", "B", "7", "C", "2", "0", "A", "7", "3", "F", "6", "D", "E", "E", "1", "B", "B", "E", "8", "6", "4", "F", "D", "1", "5", "9", "2", "4", "E", "A", "D", "B", "8", "A", "0", "7", "8", "F">>
TestCreator == <<"m", "a", "n", "i", "f", "e", "s", "t", "1", "a", "f", "k", "9", "z", "r", "2", "h", "n", "2", "j", "s", "a", "c", "6", "3", "h", "4", "h", "m", "6", "0", "v", "l", "9", "z", "3", "e", "5", "u", "6", "9", "g", "n", "d", "z", "f", "7", "c", "9", "9", "c", "q", "g", "e", "3", "v", "z", "w", "j", "z", "s", "f", "m", "y", "9", "q", "j">>
invalidhash == <<"i", "n", "v", "a", "l", "i", "d", "h", "a", "s", "h">>
invalid == <<"i", "n", "v", "a", "l", "i", "d">>
invalid_bech32 == <<"i", "n", "v", "a", "l", "i", "d", "_", "b", "e", "c", "h", "3", "2">>

\* lengths around the limits of the native grammar
NativeLens == {2, NATIVE_MIN_LEN, NATIVE_MIN_LEN + 1, NATIVE_MAX_LEN - 1,
               NATIVE_MAX_LEN, NATIVE_MAX_LEN + 1, 2 * NATIVE_MAX_LEN}

\* strings that start with neither prefix
NativeStrings ==
  {<<>>, <<"u">>, <<"a">>, <<"u", "x">>, uatom, umfx, upwr, atom,
   <<"i", "b", "c">>, <<"I", "B", "C", "/">> \o TestIbcHash,
   <<"u", "i", "b", "c", "/">>, <<"f", "a", "c", "t", "o", "r", "y">>}
  \cup {Framed(first, fill, last, n) :
          first \in {"u", "a", "U"}, fill \in {"a", "7", "A"},
          last \in {"z", "0", "Z", "-", "/"}, n \in NativeLens}

\* lengths around the length of an ibc hash
IbcLens == {2, IBC_HASH_LEN - 1, IBC_HASH_LEN, IBC_HASH_LEN + 1,
            2 * IBC_HASH_LEN}

\* strings that start with ibc/
IbcStrings ==
  {IBC_PREF \o hash :
     hash \in {<<>>, <<"A">>, TestIbcHash, invalidhash, to_lowercase(TestIbcHash)}
              \cup {Framed(first, fill, last, n) :
                      first \in {"E", "0", "e"}, fill \in {"9", "F", "f"},
                      last \in {"F", "0", "f", "G", "/"}, n \in IbcLens}}

\* creators: bech32 and bech32m strings in one case, then broken ones
CreatorInputs ==
  {TestCreator, <<"a", "1", "2", "u", "e", "l", "5", "l">>,
   <<"A", "1", "2", "U", "E", "L", "5", "L">>,
   <<"a", "1", "l", "q", "f", "n", "3", "a">>,
   <<"A", "1", "2", "u", "e", "l", "5", "l">>,
   <<"a", "1", "2", "u", "e", "l", "5", "m">>,
   <<"1", "2", "u", "e", "l", "5", "l">>,
   invalid, invalid_bech32, <<>>}

\* subdenoms: around the length limits and with characters on both sides
SubdenomInputs ==
  {<<>>, upwr, <<"a", ".", "b", ":", "c", "_", "d", "-", "E", "9">>,
   <<"u", " ", "w">>, <<"u", "$">>, Rep("a", SUBDENOM_MAX_LEN),
   Rep("a", SUBDENOM_MAX_LEN + 1), Rep("Z", SUBDENOM_MAX_LEN - 1) \o <<".">>}

\* strings that start with factory/
FactoryStrings ==
  {FACTORY_PREF \o creator : creator \in CreatorInputs}
  \cup {FACTORY_PREF \o creator \o <<"/">> \o sub :
          creator \in CreatorInputs, sub \in SubdenomInputs}
  \cup {FACTORY_PREF \o creator \o <<"/">> \o sub \o <<"/">> \o third :
          creator \in CreatorInputs, sub \in SubdenomInputs,
          third \in {<<>>, <<"x">>}}

DenomStrings == NativeStrings \cup IbcStrings \cup FactoryStrings

InitDenom ==
  /\ CONFIG = None
  /\ ADMIN = None
  /\ contract_version = None
  /\ \E s \in DenomStrings :
       call = [op |-> "denom_new", info |-> Info("", <<>>), msg |-> s]
  /\ result = NoResult
  /\ pre = NoStorage

\* Denom::new(call.msg)
New ==
  /\ call.op = "denom_new"
  /\ result.note # "returned"
  /\ LET out == DenomNew(call.msg)
     IN  result' = [NoResult EXCEPT !.err = out.err, !.data = Some(out.val),
                                    !.note = "returned"]
  /\ UNCHANGED <<CONFIG, ADMIN, contract_version, call, pre>>

NextDenom == New

SpecDenom == InitDenom /\ [][NextDenom]_vars

\* ------------------------------------------------------------------------
\* migrate on a storage written by earlier code: the cw2 record carries this
\* contract's name or another one, and this version or an earlier one
\* ------------------------------------------------------------------------

\* names and versions a cw2 record can carry
StoredNames == {CONTRACT_NAME, "other/contract"}
StoredVersions == {CONTRACT_VERSION, "0.0.1"}

\* configurations and admins an earlier instantiate left behind
StoredConfigs ==
  {c \in [poa_admin : {"manifest1poa", "manifest1poa2"},
          rate : {DECIMAL_FRACTIONAL \div 2, 2 * DECIMAL_FRACTIONAL},
          source_denom : {umfx, upwr}, target_denom : {umfx, upwr},
          paused : BOOLEAN] : c.source_denom # c.target_denom}

InitMigrate ==
  /\ CONFIG \in {Some(c) : c \in StoredConfigs}
  /\ ADMIN \in {Some(a) : a \in {"manifest1admin", "manifest1user"}}
  /\ contract_version \in
       {Some([contract |-> n, version |-> v]) : n \in StoredNames, v \in StoredVersions}
  /\ call = NoCall
  /\ result = NoResult
  /\ pre = NoStorage

NextMigrate ==
  \/ Migrate
  \/ Return

SpecMigrate == InitMigrate /\ [][NextMigrate]_vars

\* ------------------------------------------------------------------------
\* Reconfiguration: an instance instantiated with InitialConfig, on which
\* update_config and convert calls follow one another; a stored
\* configuration other than InitialConfig has been put there by update_config
\* ------------------------------------------------------------------------

InitialConfig ==
  [poa_admin |-> "manifest1poa", rate |-> 2 * DECIMAL_FRACTIONAL,
   source_denom |-> umfx, target_denom |-> upwr, paused |-> FALSE]

InitReconfig ==
  /\ CONFIG = Some(InitialConfig)
  /\ ADMIN = Some("manifest1admin")
  /\ contract_version =
       Some([contract |-> CONTRACT_NAME, version |-> CONTRACT_VERSION])
  /\ call = NoCall
  /\ result = NoResult
  /\ pre = NoStorage

NextReconfig ==
  \/ UpdateConfig
  \/ Convert
  \/ Return

SpecReconfig == InitReconfig /\ [][NextReconfig]_vars

\* ------------------------------------------------------------------------
\* exec::update_config statement by statement, with readers of the
\* configuration between its statements
\* ------------------------------------------------------------------------

\* the statement at pc has run: control is at next, the in-memory copy is cc
Goto(next, cc, st) ==
  [pc |-> next, current_config |-> cc, st |-> st, err |-> "none", note |-> "",
   loads |-> 0, saves |-> 0]

\* the statement at pc has returned from update_config
Finish(e, note, cc, st) ==
  [pc |-> "done", current_config |-> cc, st |-> st, err |-> e, note |-> note,
   loads |-> 0, saves |-> 0]

\* the candidate after a field's statement, or the return of its error
FieldDone(applied, next, cc, st) ==
  IF applied.ok THEN Goto(next, Some(applied.val), st)
  ELSE Finish(applied.err, "", cc, st)

\* update_config_step writing the candidate to the storage as soon as the
\* source denomination is applied
update_config_step_writes_through(st, info, config, pc, current_config) ==
  CASE pc = "nonpayable" ->
         IF nonpayable(info).ok THEN Goto("assert_admin", current_config, st)
         ELSE Finish("NonPayable", "", current_config, st)
    [] pc = "assert_admin" ->
         IF assert_admin(st, info.sender).ok THEN Goto("is_empty", current_config, st)
         ELSE Finish("NotAdmin", "", current_config, st)
    [] pc = "is_empty" ->
         IF is_empty(config)
           THEN Finish("none", "empty config, no changes made", current_config, st)
         ELSE Goto("load", current_config, st)
    [] pc = "load" ->
         IF is_none(st.CONFIG)
           THEN [Finish("StdError", "", current_config, st) EXCEPT !.loads = 1]
         ELSE [Goto("is_noop", st.CONFIG, st) EXCEPT !.loads = 1]
    [] pc = "is_noop" ->
         IF is_noop(config, current_config.v)
           THEN Finish("none", "identical config, no changes made", current_config, st)
         ELSE Goto("poa_admin", current_config, st)
    [] pc = "poa_admin" ->
         FieldDone(ApplyPoaAdmin(current_config.v, config), "rate", current_config, st)
    [] pc = "rate" ->
         FieldDone(ApplyRate(current_config.v, config), "source_denom", current_config, st)
    [] pc = "source_denom" ->
         FieldDone(ApplySourceDenom(current_config.v, config), "target_denom",
                   current_config,
                   [st EXCEPT !.CONFIG =
                      Some(ApplySourceDenom(current_config.v, config).val)])
    [] pc = "target_denom" ->
         FieldDone(ApplyTargetDenom(current_config.v, config), "paused",
                   current_config, st)
    [] pc = "paused" ->
         FieldDone(ApplyPaused(current_config.v, config), "same_denom",
                   current_config, st)
    [] pc = "same_denom" ->
         IF CandidateCheck(current_config.v).ok THEN Goto("save", current_config, st)
         ELSE Finish("SameDenom", "", current_config, st)
    [] pc = "save" ->
         [Finish("none", "", current_config, [st EXCEPT !.CONFIG = current_config])
            EXCEPT !.saves = 1]

\* exec::update_config, one statement: pc names the statement about to run,
\* current_config is the local copy (None before the load)
update_config_step(st, info, config, pc, current_config) ==
  CASE pc = "nonpayable" ->
         IF nonpayable(info).ok THEN Goto("assert_admin", current_config, st)
         ELSE Finish("NonPayable", "", current_config, st)
    [] pc = "assert_admin" ->
         IF assert_admin(st, info.sender).ok THEN Goto("is_empty", current_config, st)
         ELSE Finish("NotAdmin", "", current_config, st)
    [] pc = "is_empty" ->
         IF is_empty(config)
           THEN Finish("none", "empty config, no changes made", current_config, st)
         ELSE Goto("load", current_config, st)
    [] pc = "load" ->
         IF is_none(st.CONFIG)
           THEN [Finish("StdError", "", current_config, st) EXCEPT !.loads = 1]
         ELSE [Goto("is_noop", st.CONFIG, st) EXCEPT !.loads = 1]
    [] pc = "is_noop" ->
         IF is_noop(config, current_config.v)
           THEN Finish("none", "identical config, no changes made", current_config, st)
         ELSE Goto("poa_admin", current_config, st)
    [] pc = "poa_admin" ->
         FieldDone(ApplyPoaAdmin(current_config.v, config), "rate", current_config, st)
    [] pc = "rate" ->
         FieldDone(ApplyRate(current_config.v, config), "source_denom", current_config, st)
    [] pc = "source_denom" ->
         FieldDone(ApplySourceDenom(current_config.v, config), "target_denom",
                   current_config, st)
    [] pc = "target_denom" ->
         FieldDone(ApplyTargetDenom(current_config.v, config), "paused",
                   current_config, st)
    [] pc = "paused" ->
         FieldDone(ApplyPaused(current_config.v, config), "same_denom",
                   current_config, st)
    [] pc = "same_denom" ->
         IF CandidateCheck(current_config.v).ok THEN Goto("save", current_config, st)
         ELSE Finish("SameDenom", "", current_config, st)
    [] pc = "save" ->
         [Finish("none", "", current_config, [st EXCEPT !.CONFIG = current_config])
            EXCEPT !.saves = 1]

\* what a reader gets from the storage st: the Config query, or a convert
\* with the funds given
Observation(kind, funds, st) ==
  IF kind = "query"
    THEN [kind |-> kind, funds |-> funds, err |-> query_config(st).err,
          seen |-> query_config(st).data, messages |-> <<>>]
  ELSE [kind |-> kind, funds |-> funds,
        err |-> convert(st, Env, Info("manifest1user", funds)).err,
        seen |-> None,
        messages |-> convert(st, Env, Info("manifest1user", funds)).messages]

\* the configurations an update starts from
StepConfigs ==
  {c \in [poa_admin : {"manifest1poa"},
          rate : {2 * DECIMAL_FRACTIONAL},
          source_denom : {umfx, upwr}, target_denom : {umfx, upwr, uatom},
          paused : BOOLEAN] : c.source_denom # c.target_denom}

\* the funds of the converts made while an update runs
StepFundsInputs == {<<Coin(10, umfx)>>, <<Coin(10, upwr)>>}

InitSteps ==
  /\ CONFIG \in {Some(c) : c \in StepConfigs}
  /\ ADMIN = Some("manifest1admin")
  /\ contract_version = Some([contract |-> CONTRACT_NAME, version |-> CONTRACT_VERSION])
  /\ \E sender \in Senders, funds \in NonPayableFundsInputs, config \in UpdateConfigs :
       call = [op |-> "update_config_steps", info |-> Info(sender, funds),
               msg |-> config, pc |-> "nonpayable", current_config |-> None]
  /\ result = NoResult
  /\ pre = [CONFIG |-> CONFIG, ADMIN |-> ADMIN, contract_version |-> contract_version]

\* the next statement of update_config runs; what a reader was given before
\* is no longer on display
UpdateConfigStep ==
  /\ call.op = "update_config_steps"
  /\ call.pc # "done"
  /\ LET out == update_config_step(Storage, call.info, call.msg, call.pc,
                                   call.current_config)
     IN  /\ call' = [call EXCEPT !.pc = out.pc, !.current_config = out.current_config]
         /\ result' = [result EXCEPT !.err = out.err, !.note = out.note,
                                     !.loads = @ + out.loads, !.saves = @ + out.saves,
                                     !.data = None]
         /\ CONFIG' = out.st.CONFIG
  /\ UNCHANGED <<ADMIN, contract_version, pre>>

\* a Config query reads the storage between two statements of the update
QueryDuringUpdate ==
  /\ call.op = "update_config_steps"
  /\ result' = [result EXCEPT !.data = Some(Observation("query", <<>>, Storage))]
  /\ UNCHANGED <<CONFIG, ADMIN, contract_version, call, pre>>

\* a convert reads the storage between two statements of the update
ConvertDuringUpdate ==
  /\ call.op = "update_config_steps"
  /\ \E funds \in StepFundsInputs :
       result' = [result EXCEPT !.data = Some(Observation("convert", funds, Storage))]
  /\ UNCHANGED <<CONFIG, ADMIN, contract_version, call, pre>>

NextSteps ==
  \/ UpdateConfigStep
  \/ QueryDuringUpdate
  \/ ConvertDuringUpdate

SpecSteps == InitSteps /\ [][NextSteps]_vars

\* ------------------------------------------------------------------------
\* Properties
\* ------------------------------------------------------------------------

\* the call being answered and the configuration it found
Answered(op) == call.op = op
PreConfig == pre.CONFIG.v
Funds == call.info.funds

\* C1: in every state after a successful instantiate, whatever calls follow,
\* the stored configuration has source_denom different from target_denom.
C1_SourceDiffersFromTarget ==
  Instantiated => CONFIG.v.source_denom # CONFIG.v.target_denom

\* a successful update_config has replaced both denominations
C1_Witness ==
  /\ Answered("update_config") /\ result.err = "none" /\ result.saves = 1
  /\ CONFIG.v.source_denom # PreConfig.source_denom
  /\ CONFIG.v.target_denom # PreConfig.target_denom

\* C2: whenever update_config returns an error, the stored configuration
\* (and the rest of the storage) is what it was before the call, and no save
\* of the configuration was made.
C2_UpdateConfigErrorLeavesConfig ==
  (Answered("update_config") /\ result.err # "none") =>
    (Storage = pre /\ result.saves = 0)

\* update_config failed with SameDenom after a valid poa_admin and a valid
\* rate, both different from the stored ones, had been applied to the candidate
C2_Witness ==
  /\ Answered("update_config") /\ result.err = "SameDenom"
  /\ is_some(call.msg.poa_admin) /\ call.msg.poa_admin.v # PreConfig.poa_admin
  /\ is_some(call.msg.rate) /\ RateParse(call.msg.rate.v).val # PreConfig.rate
  /\ CONFIG = pre.CONFIG

\* C3: update_config without funds by a sender that is not the current admin
\* fails with NotAdmin for every request, and the storage is unchanged.
C3_UpdateConfigNotAdmin ==
  (Answered("update_config") /\ Funds = <<>>
     /\ pre.ADMIN # Some(call.info.sender)) =>
    (result.err = "NotAdmin" /\ Storage = pre)

\* a non-admin sent a request identical to the current configuration in all
\* five fields
C3_Witness ==
  /\ Answered("update_config") /\ Funds = <<>>
  /\ pre.ADMIN # Some(call.info.sender)
  /\ is_some(call.msg.poa_admin) /\ is_some(call.msg.rate)
  /\ is_some(call.msg.source_denom) /\ is_some(call.msg.target_denom)
  /\ is_some(call.msg.paused)
  /\ call.msg.poa_admin.v = PreConfig.poa_admin
  /\ call.msg.rate.v = RateToString(PreConfig.rate)
  /\ call.msg.source_denom.v = PreConfig.source_denom
  /\ call.msg.target_denom.v = PreConfig.target_denom
  /\ call.msg.paused.v = PreConfig.paused
  /\ result.err = "NotAdmin"

\* C4: while the stored configuration is paused, convert fails with Paused
\* for every caller and every funds list and returns no message.
C4_ConvertPaused ==
  (Answered("convert") /\ PreConfig.paused) =>
    (result.err = "Paused" /\ result.messages = <<>>)

\* a paused convert was called with funds that fail the one-coin check
C4_Witness ==
  /\ Answered("convert") /\ PreConfig.paused /\ Len(Funds) # 1
  /\ result.err = "Paused"

\* C5: a successful convert returns exactly two messages: the bank transfer of
\* the deposited coin to poa_admin, then one authz exec with the contract as
\* grantee wrapping the burn of the deposited amount of source_denom under
\* poa_admin and the mint, by poa_admin, of apply_to(amount) of target_denom
\* to the caller.
C5_ConvertMessages ==
  (Answered("convert") /\ result.err = "none") =>
    /\ Len(Funds) = 1
    /\ Funds[1].denom = PreConfig.source_denom
    /\ Len(result.messages) = 2
    /\ LET send == result.messages[1]
           exec == result.messages[2]
           minted == apply_to(PreConfig.rate, Funds[1].amount)
       IN  /\ send.type = "BankMsg::Send"
           /\ send.to_address = PreConfig.poa_admin
           /\ send.amount = <<Coin(Funds[1].amount, PreConfig.source_denom)>>
           /\ exec.type_url = "MsgExec"
           /\ exec.grantee = CONTRACT_ADDR
           /\ Len(exec.msgs) = 2
           /\ exec.msgs[1].type_url = "MsgBurnHeldBalance"
           /\ exec.msgs[1].authority = PreConfig.poa_admin
           /\ Len(exec.msgs[1].burn_coins) = 1
           /\ exec.msgs[1].burn_coins[1].denom = PreConfig.source_denom
           /\ UintFromStr(exec.msgs[1].burn_coins[1].amount) = Ok(Funds[1].amount)
           /\ exec.msgs[2].type_url = "MsgMint"
           /\ exec.msgs[2].sender = PreConfig.poa_admin
           /\ exec.msgs[2].amount.denom = PreConfig.target_denom
           /\ minted.ok
           /\ UintFromStr(exec.msgs[2].amount.amount) = Ok(minted.val)
           /\ exec.msgs[2].mint_to_address = call.info.sender

\* a convert by a caller other than the admin succeeded and minted an amount
\* different from the deposit
C5_Witness ==
  /\ Answered("convert") /\ result.err = "none"
  /\ pre.ADMIN # Some(call.info.sender)
  /\ Len(result.messages) = 2
  /\ result.messages[2].msgs[2].amount.amount # UintToString(Funds[1].amount)

\* C6: for a non-zero amount that fits the fixed-point range and a product
\* that does not overflow, apply_to returns the exact floor r of rate x amount
\* (r <= rate x amount < r + 1) when that floor is at least 1 and
\* ApplyZeroError when it is 0; a returned value is never 0 and never above
\* rate x amount.  The product of the rate's atomics and the amount is
\* rate x amount scaled by DECIMAL_FRACTIONAL.
C6_ApplyToFloorExact ==
  (Answered("apply_to") /\ result.note = "returned") =>
    LET scaled == call.msg.rate * call.msg.amount
        r == result.data.v
    IN  /\ (call.msg.amount # 0
              /\ call.msg.amount * DECIMAL_FRACTIONAL <= MaxUint
              /\ scaled <= MaxUint) =>
             IF scaled >= DECIMAL_FRACTIONAL
               THEN /\ result.err = "none"
                    /\ r * DECIMAL_FRACTIONAL <= scaled
                    /\ scaled < (r + 1) * DECIMAL_FRACTIONAL
               ELSE result.err = "ApplyZeroError"
        /\ result.err = "none" => (r >= 1 /\ r * DECIMAL_FRACTIONAL <= scaled)

\* apply_to returned a floor that dropped a fractional remainder
C6_Witness ==
  /\ Answered("apply_to") /\ result.note = "returned" /\ result.err = "none"
  /\ (call.msg.rate * call.msg.amount) % DECIMAL_FRACTIONAL # 0
  /\ result.data.v * DECIMAL_FRACTIONAL < call.msg.rate * call.msg.amount

\* the case of C7: not paused, exactly one coin of source_denom, amount zero
C7_Case ==
  /\ Answered("convert") /\ ~PreConfig.paused
  /\ Len(Funds) = 1
  /\ Funds[1].denom = PreConfig.source_denom
  /\ Funds[1].amount = 0

\* C7 as stated: such a convert fails with AmountIsZero.
C7_ZeroCoinAmountIsZero == C7_Case => result.err = "AmountIsZero"

\* C7 as amended: such a convert fails with InvalidFunds, the one-coin check
\* rejecting the zero amount before the denomination check and the rate
\* application; no message is returned.
C7_ZeroCoinInvalidFunds ==
  C7_Case => (result.err = "InvalidFunds" /\ result.messages = <<>>)

\* a convert with one zero coin of source_denom has been answered
C7_Witness == C7_Case /\ result.err # "none"

\* C8: when not paused, convert with no coin or with more than one coin fails
\* with InvalidFunds whatever the coins are, and returns no message.
C8_ConvertInvalidFunds ==
  (Answered("convert") /\ ~PreConfig.paused /\ Len(Funds) # 1) =>
    (result.err = "InvalidFunds" /\ result.messages = <<>>)

\* convert was called with several coins, the first a coin of source_denom
\* that alone would have been converted
C8_Witness ==
  /\ Answered("convert") /\ ~PreConfig.paused /\ Len(Funds) > 1
  /\ Funds[1].denom = PreConfig.source_denom
  /\ apply_to(PreConfig.rate, Funds[1].amount).ok
  /\ result.err = "InvalidFunds"

\* C9: when not paused, convert with exactly one non-zero coin of a
\* denomination other than source_denom fails with InvalidSourceDenom, also
\* when the rate application would fail on the amount.
C9_ConvertInvalidSourceDenom ==
  (Answered("convert") /\ ~PreConfig.paused /\ Len(Funds) = 1
     /\ Funds[1].amount # 0 /\ Funds[1].denom # PreConfig.source_denom) =>
    (result.err = "InvalidSourceDenom" /\ result.messages = <<>>)

\* convert was called with one coin of target_denom whose amount does not fit
\* the fixed-point range
C9_Witness ==
  /\ Answered("convert") /\ ~PreConfig.paused /\ Len(Funds) = 1
  /\ Funds[1].denom = PreConfig.target_denom
  /\ apply_to(PreConfig.rate, Funds[1].amount).err = "AmountExceedsMax"
  /\ result.err = "InvalidSourceDenom"

\* C10: when not paused, convert with exactly one non-zero coin of
\* source_denom succeeds iff apply_to of the stored rate succeeds on the
\* amount, and otherwise fails with the error apply_to returned and no message.
C10_ConvertFollowsApplyTo ==
  (Answered("convert") /\ ~PreConfig.paused /\ Len(Funds) = 1
     /\ Funds[1].amount # 0 /\ Funds[1].denom = PreConfig.source_denom) =>
    LET minted == apply_to(PreConfig.rate, Funds[1].amount)
    IN  /\ (result.err = "none") <=> minted.ok
        /\ ~minted.ok =>
             /\ result.err = minted.err
             /\ result.err \in {"AmountExceedsMax", "ApplyOverflowError", "ApplyZeroError"}
             /\ result.messages = <<>>

\* convert of 1 unit at rate 0.5 failed with ApplyZeroError
C10_Witness ==
  /\ Answered("convert") /\ ~PreConfig.paused /\ Len(Funds) = 1
  /\ Funds[1].amount = 1 /\ Funds[1].denom = PreConfig.source_denom
  /\ RateToString(PreConfig.rate) = <<"0", ".", "5">>
  /\ result.err = "ApplyZeroError"

\* update_config called without funds by the current admin
AdminUpdateConfig ==
  /\ Answered("update_config") /\ Funds = <<>>
  /\ pre.ADMIN = Some(call.info.sender)

\* the field f of the request is not set or carries the value v
UnsetOr(f, v) == f = None \/ f = Some(v)

\* C11: an update_config by the admin in which at least one field is set and
\* every set field carries the serialized value of the stored configuration's
\* field succeeds with the note 'identical config, no changes made', makes no
\* save, and leaves the storage as it was.
C11_IdenticalRequestIsNoop ==
  (AdminUpdateConfig
     /\ call.msg # [poa_admin |-> None, rate |-> None, source_denom |-> None,
                    target_denom |-> None, paused |-> None]
     /\ UnsetOr(call.msg.poa_admin, PreConfig.poa_admin)
     /\ UnsetOr(call.msg.rate, Decimal256ToString(PreConfig.rate))
     /\ UnsetOr(call.msg.source_denom, PreConfig.source_denom)
     /\ UnsetOr(call.msg.target_denom, PreConfig.target_denom)
     /\ UnsetOr(call.msg.paused, PreConfig.paused)) =>
    /\ result.err = "none"
    /\ result.note = "identical config, no changes made"
    /\ result.saves = 0
    /\ Storage = pre

\* the admin sent only the rate and the source denomination, the stored rate
\* being 2, whose serialized form is not the string it was given as
C11_Witness ==
  /\ AdminUpdateConfig
  /\ call.msg.rate = Some(<<"2">>) /\ PreConfig.rate = 2 * DECIMAL_FRACTIONAL
  /\ call.msg.source_denom = Some(PreConfig.source_denom)
  /\ call.msg.poa_admin = None /\ call.msg.target_denom = None /\ call.msg.paused = None
  /\ result.note = "identical config, no changes made"

\* C12: an update_config by the admin with no field set succeeds with the note
\* 'empty config, no changes made' without loading or saving the
\* configuration, so no field validation and no SameDenom check is run; the
\* storage is unchanged.
C12_EmptyRequestIsNoop ==
  (AdminUpdateConfig
     /\ call.msg = [poa_admin |-> None, rate |-> None, source_denom |-> None,
                    target_denom |-> None, paused |-> None]) =>
    /\ result.err = "none"
    /\ result.note = "empty config, no changes made"
    /\ result.loads = 0
    /\ result.saves = 0
    /\ Storage = pre

\* the admin sent the empty request
\* to a paused contract
C12_Witness ==
  /\ AdminUpdateConfig
  /\ call.msg.poa_admin = None /\ call.msg.rate = None /\ call.msg.paused = None
  /\ call.msg.source_denom = None /\ call.msg.target_denom = None
  /\ PreConfig.paused
  /\ result.note = "empty config, no changes made"

\* the value of a field after an update: the request's value v when the
\* request field f is set, the value old it had otherwise
Updated(f, v, old) == IF f = None THEN old ELSE v

\* C13: after a successful update_config by the admin that is neither empty
\* nor a no-op, the stored configuration has the validated request value in
\* every field the request sets and the value from before the call in every
\* other field, exactly one save was made, and the Config query on that
\* storage returns this configuration.
C13_UpdateConfigAppliesSetFields ==
  (AdminUpdateConfig /\ result.err = "none"
     /\ result.note # "empty config, no changes made"
     /\ result.note # "identical config, no changes made") =>
    LET m == call.msg
        expected ==
          [poa_admin |-> Updated(m.poa_admin, addr_validate(m.poa_admin.v).val,
                                 PreConfig.poa_admin),
           rate |-> Updated(m.rate, RateParse(m.rate.v).val, PreConfig.rate),
           source_denom |-> Updated(m.source_denom, m.source_denom.v,
                                    PreConfig.source_denom),
           target_denom |-> Updated(m.target_denom, m.target_denom.v,
                                    PreConfig.target_denom),
           paused |-> Updated(m.paused, m.paused.v, PreConfig.paused)]
    IN  /\ CONFIG = Some(expected)
        /\ result.saves = 1
        /\ ADMIN = pre.ADMIN /\ contract_version = pre.contract_version
        /\ query_config(Storage).err = "none"
        /\ query_config(Storage).data = Some(expected)

\* a successful update set a new rate, a new target denomination and the
\* pause flag and left poa_admin and the source denomination unset
C13_Witness ==
  /\ AdminUpdateConfig /\ result.err = "none" /\ result.saves = 1
  /\ call.msg.poa_admin = None /\ call.msg.source_denom = None
  /\ is_some(call.msg.rate) /\ CONFIG.v.rate # PreConfig.rate
  /\ is_some(call.msg.target_denom) /\ CONFIG.v.target_denom # PreConfig.target_denom
  /\ is_some(call.msg.paused) /\ CONFIG.v.paused # PreConfig.paused

\* C14: while the stored configuration is paused every convert fails with
\* Paused; the configuration stops being paused only by a successful
\* update_config whose request sets paused = false, and such an update does
\* unpause; whenever the stored configuration is not paused (in particular
\* after that update) a convert with one source_denom coin whose converted
\* amount is at least 1 succeeds.
C14_PauseGating ==
  [][ /\ (Instantiated /\ CONFIG.v.paused /\ call'.op = "convert") =>
           (result'.err = "Paused" /\ result'.messages = <<>>)
      /\ (Instantiated /\ CONFIG.v.paused /\ ~CONFIG'.v.paused) =>
           /\ call'.op = "update_config" /\ result'.err = "none"
           /\ result'.saves = 1
           /\ call'.msg.paused = Some(FALSE)
      /\ (call'.op = "update_config" /\ result'.err = "none"
            /\ call'.msg.paused = Some(FALSE)) => ~CONFIG'.v.paused
      /\ (Instantiated /\ ~CONFIG.v.paused /\ call'.op = "convert"
            /\ Len(call'.info.funds) = 1
            /\ call'.info.funds[1].denom = CONFIG.v.source_denom
            /\ call'.info.funds[1].amount # 0
            /\ call'.info.funds[1].amount * DECIMAL_FRACTIONAL <= MaxUint
            /\ CONFIG.v.rate * call'.info.funds[1].amount <= MaxUint
            /\ CONFIG.v.rate * call'.info.funds[1].amount >= DECIMAL_FRACTIONAL) =>
           (result'.err = "none" /\ Len(result'.messages) = 2)
    ]_vars

\* a successful update_config has unpaused a paused contract
C14_Witness ==
  /\ Answered("update_config") /\ result.err = "none"
  /\ PreConfig.paused /\ ~CONFIG.v.paused
  /\ call.msg.paused = Some(FALSE)

\* C15: when instantiate fails, at whichever check (funds attached, invalid
\* admin or poa_admin address, rate that does not parse or is zero, invalid
\* source or target denomination, equal denominations), nothing is stored: no
\* configuration, no admin, no contract version.
C15_FailedInstantiateStoresNothing ==
  (Answered("instantiate") /\ result.err # "none") =>
    /\ CONFIG = None
    /\ ADMIN = None
    /\ contract_version = None
    /\ result.saves = 0
    /\ result.err \in {"NonPayable", "StdError", "InvalidRateParsing", "InvalidRateZero",
                       "EmptyDenom", "InvalidDenomFormat", "InvalidIbcDenomFormat",
                       "InvalidFactoryDenomFormat", "SameDenom"}

\* instantiate failed at its last check, the comparison of the denominations,
\* every other input being valid
C15_Witness ==
  /\ Answered("instantiate") /\ result.err = "SameDenom"
  /\ addr_validate(call.msg.admin).ok /\ addr_validate(call.msg.poa_admin).ok
  /\ RateParse(call.msg.rate).ok
  /\ call.msg.source_denom = call.msg.target_denom

\* C16: after a successful instantiate the stored configuration holds the
\* message's poa_admin, parsed rate, denominations and paused flag, the admin
\* is the message's admin address, the contract version is recorded, and the
\* Config and Admin queries on that storage return these values.
C16_InstantiateStoresInputs ==
  (Answered("instantiate") /\ result.err = "none") =>
    LET m == call.msg
        expected == [poa_admin |-> m.poa_admin,
                     rate |-> Decimal256FromStr(m.rate).val,
                     source_denom |-> m.source_denom,
                     target_denom |-> m.target_denom,
                     paused |-> m.paused]
    IN  /\ Funds = <<>>
        /\ m.admin \in ValidAddrs /\ m.poa_admin \in ValidAddrs
        /\ Decimal256FromStr(m.rate).ok /\ expected.rate > 0
        /\ CONFIG = Some(expected)
        /\ ADMIN = Some(m.admin)
        /\ contract_version =
             Some([contract |-> CONTRACT_NAME, version |-> CONTRACT_VERSION])
        /\ query_config(Storage).data = Some(expected)
        /\ query_admin(Storage).data = Some(Some(m.admin))

\* a contract was instantiated paused, by a sender that is not the admin it
\* names
C16_Witness ==
  /\ Answered("instantiate") /\ result.err = "none"
  /\ call.msg.paused /\ CONFIG.v.paused
  /\ call.info.sender # call.msg.admin

\* C17: instantiate, update_config and update_admin called with a non-empty
\* funds list fail with NonPayable and leave the storage as it was, whoever
\* the sender is: a sender that is not the admin gets NonPayable, not NotAdmin.
C17_NonPayable ==
  (call.op \in {"instantiate", "update_config", "update_admin"} /\ Funds # <<>>) =>
    (result.err = "NonPayable" /\ Storage = pre)

\* update_admin was called with funds by a sender that is not the admin
C17_Witness ==
  /\ Answered("update_admin") /\ Funds # <<>>
  /\ pre.ADMIN # Some(call.info.sender)
  /\ result.err = "NonPayable"

\* C18: update_admin without funds by the current admin with admin = none
\* fails with CannotRenounce, and update_admin without funds by a sender that
\* is not the current admin fails with NotAdmin whatever admin it names; in
\* both cases the storage, the admin included, is unchanged.  (With funds
\* attached the call fails earlier, with NonPayable.)
C18_UpdateAdminRejections ==
  (Answered("update_admin") /\ Funds = <<>>) =>
    /\ (pre.ADMIN = Some(call.info.sender) /\ call.msg = None) =>
         (result.err = "CannotRenounce" /\ Storage = pre)
    /\ pre.ADMIN # Some(call.info.sender) =>
         (result.err = "NotAdmin" /\ Storage = pre)
    /\ is_some(ADMIN)

\* the current admin asked for the admin to be removed
C18_Witness ==
  /\ Answered("update_admin") /\ Funds = <<>>
  /\ pre.ADMIN = Some(call.info.sender) /\ call.msg = None
  /\ result.err = "CannotRenounce"

\* C19: a successful update_admin is one made by the current admin A naming a
\* valid address B; it stores B, and the Admin query on that storage returns
\* B.  The stored admin changes in no other step, and in every step the
\* admin check of update_config and update_admin (calls without funds) fails
\* with NotAdmin exactly for the senders other than the stored admin, so B
\* passes and A, when A # B, is rejected until the next successful
\* update_admin.
C19_AdminHandover ==
  [][ /\ (call'.op = "update_admin" /\ result'.err = "none") =>
           /\ ADMIN = Some(call'.info.sender)
           /\ is_some(call'.msg) /\ call'.msg.v \in ValidAddrs
           /\ ADMIN' = Some(call'.msg.v)
           /\ query_admin(Storage').data = Some(Some(call'.msg.v))
      /\ (Instantiated /\ ADMIN' # ADMIN) =>
           (call'.op = "update_admin" /\ result'.err = "none")
      /\ (call'.op \in {"update_config", "update_admin"} /\ call'.info.funds = <<>>) =>
           (result'.err = "NotAdmin" <=> ADMIN # Some(call'.info.sender))
    ]_vars

\* the admin was handed over to another address, and the former admin is no
\* longer the stored one
C19_Witness ==
  /\ Answered("update_admin") /\ result.err = "none"
  /\ ADMIN # pre.ADMIN
  /\ ADMIN = Some(call.msg.v)
  /\ pre.ADMIN = Some(call.info.sender)

\* the configuration a committing update_config of the request in progress
\* stores: the request's validated value in each field it sets, the value
\* from before the call in the others
CommittedConfig ==
  LET m == call.msg
  IN  [poa_admin |-> Updated(m.poa_admin, addr_validate(m.poa_admin.v).val,
                             PreConfig.poa_admin),
       rate |-> Updated(m.rate, RateParse(m.rate.v).val, PreConfig.rate),
       source_denom |-> Updated(m.source_denom, m.source_denom.v,
                                PreConfig.source_denom),
       target_denom |-> Updated(m.target_denom, m.target_denom.v,
                                PreConfig.target_denom),
       paused |-> Updated(m.paused, m.paused.v, PreConfig.paused)]

\* the update in progress has made its save
HasCommitted ==
  call.pc = "done" /\ result.err = "none" /\ result.saves = 1

\* C20: a Config query or a convert run between any two statements of an
\* update_config call gets what it would get from the storage before the
\* call or, once the update has made its save, from the storage holding the
\* complete configuration the update commits; the stored record itself is
\* always one of these two, never one with only some of the request's fields
\* applied; update_config makes at most one load and at most one save; and
\* the statement-by-statement execution ends with the outcome and the storage
\* of the call.
C20_UpdateConfigLinearizable ==
  call.op = "update_config_steps" =>
    LET committed == [pre EXCEPT !.CONFIG = Some(CommittedConfig)]
    IN  /\ result.loads <= 1 /\ result.saves <= 1
        /\ Storage = pre \/ (HasCommitted /\ Storage = committed)
        /\ is_some(result.data) =>
             \/ result.data.v =
                  Observation(result.data.v.kind, result.data.v.funds, pre)
             \/ /\ HasCommitted
                /\ result.data.v =
                     Observation(result.data.v.kind, result.data.v.funds, committed)
        /\ call.pc = "done" =>
             LET out == update_config(pre, call.info, call.msg)
             IN  /\ result.err = out.err /\ result.note = out.note
                 /\ result.loads = out.loads /\ result.saves = out.saves
                 /\ Storage = out.st

\* a Config query ran just before the save of an update whose in-memory
\* candidate already differs from the stored configuration in three fields,
\* and got the configuration from before the call
C20_Witness ==
  /\ call.op = "update_config_steps" /\ call.pc = "save"
  /\ call.current_config.v.rate # PreConfig.rate
  /\ call.current_config.v.source_denom # PreConfig.source_denom
  /\ call.current_config.v.paused # PreConfig.paused
  /\ is_some(result.data) /\ result.data.v.kind = "query"
  /\ result.data.v.seen = pre.CONFIG

\* C21: the stored configuration changes only in the step of a successful
\* instantiate or of a successful update_config: the steps of convert
\* (successful or failing), update_admin, migrate and of the two queries
\* leave it as it was, and a convert step also leaves the admin and the
\* contract version as they were.
C21_ConfigWrittenOnlyByInstantiateAndUpdate ==
  [][ /\ CONFIG' # CONFIG =>
           (call'.op \in {"instantiate", "update_config"} /\ result'.err = "none"
              /\ result'.saves = 1)
      /\ call'.op \in {"convert", "update_admin", "migrate", "query_config",
                       "query_admin"} =>
           (CONFIG' = CONFIG /\ result'.saves = 0)
      /\ call'.op = "convert" =>
           (ADMIN' = ADMIN /\ contract_version' = contract_version)
    ]_vars

\* a convert succeeded and the storage is what it was before the call
C21_Witness ==
  /\ Answered("convert") /\ result.err = "none" /\ Len(result.messages) = 2
  /\ CONFIG = pre.CONFIG /\ ADMIN = pre.ADMIN
  /\ contract_version = pre.contract_version

\* apply_to has returned for the rate and the amount of the call
ApplyToReturned == Answered("apply_to") /\ result.note = "returned"

\* C22: apply_to returns AmountExceedsMax exactly when the amount is not zero
\* and amount x DECIMAL_FRACTIONAL exceeds the largest integer, whatever the
\* rate (also when rate x amount would fit, and also when it would overflow);
\* for amount zero it returns AmountIsZero.
C22_AmountExceedsMax ==
  ApplyToReturned =>
    /\ result.err = "AmountExceedsMax" <=>
         (call.msg.amount # 0 /\ call.msg.amount * DECIMAL_FRACTIONAL > MaxUint)
    /\ call.msg.amount = 0 => result.err = "AmountIsZero"

\* a rate below 1 was applied to an amount out of the fixed-point range, the
\* product of the two being in range
C22_Witness ==
  /\ ApplyToReturned /\ result.err = "AmountExceedsMax"
  /\ call.msg.rate < DECIMAL_FRACTIONAL
  /\ call.msg.rate * call.msg.amount <= MaxUint

\* C23: for a non-zero amount that fits the fixed-point range, apply_to
\* returns ApplyOverflowError exactly when the atomics of the rate times the
\* amount exceed the largest integer; a returned value is the floor of the
\* full product, never a wrapped one.
C23_ApplyOverflow ==
  (ApplyToReturned /\ call.msg.amount # 0
     /\ call.msg.amount * DECIMAL_FRACTIONAL <= MaxUint) =>
    /\ result.err = "ApplyOverflowError" <=> call.msg.rate * call.msg.amount > MaxUint
    /\ result.err = "none" =>
         result.data.v = (call.msg.rate * call.msg.amount) \div DECIMAL_FRACTIONAL

\* the product exceeds the largest integer by one step of the amount: one
\* unit less would have fitted
C23_Witness ==
  /\ ApplyToReturned /\ result.err = "ApplyOverflowError"
  /\ call.msg.amount * DECIMAL_FRACTIONAL <= MaxUint
  /\ call.msg.rate * (call.msg.amount - 1) <= MaxUint
  /\ call.msg.rate < MaxUint

\* C24: for one rate and amounts a <= b, when apply_to succeeds on both the
\* result for a is at most the result for b, and when it succeeds on a and b
\* fits the fixed-point range with a product that does not overflow, it
\* succeeds on b.
C24_ApplyToMonotone ==
  (Answered("apply_to_pair") /\ result.note = "returned") =>
    LET first == result.data.v.first
        second == result.data.v.second
        b == call.msg.larger
    IN  /\ (first.ok /\ second.ok) => first.val <= second.val
        /\ (first.ok /\ b * DECIMAL_FRACTIONAL <= MaxUint
              /\ call.msg.rate * b <= MaxUint) => second.ok

\* two different amounts on which apply_to succeeds with the same result,
\* the fraction dropped by the floor covering the difference
C24_Witness ==
  /\ Answered("apply_to_pair") /\ result.note = "returned"
  /\ call.msg.amount < call.msg.larger
  /\ result.data.v.first.ok /\ result.data.v.second.ok
  /\ result.data.v.first.val = result.data.v.second.val

\* Rate::parse has returned for the string of the call
ParseReturned == Answered("parse") /\ result.note = "returned"

\* a non-empty string of decimal digits
IsDigits(s) == s # <<>> /\ \A i \in 1..Len(s) : is_ascii_digit(s[i])

\* the number a string of digits denotes
RECURSIVE NumeralValue(_)
NumeralValue(s) ==
  IF s = <<>> THEN 0
  ELSE 10 * NumeralValue(SubSeq(s, 1, Len(s) - 1)) + DigitVal[s[Len(s)]]

\* the whole and the fractional part of a string written with at most one dot
WholeDigits(s) ==
  IF FindFrom(s, ".", 1) = 0 THEN s ELSE SubSeq(s, 1, FindFrom(s, ".", 1) - 1)
FractionDigits(s) ==
  IF FindFrom(s, ".", 1) = 0 THEN <<>> ELSE SubSeq(s, FindFrom(s, ".", 1) + 1, Len(s))

\* a decimal string: digits, optionally followed by a dot and digits
IsDecimalString(s) ==
  /\ IsDigits(WholeDigits(s))
  /\ FindFrom(s, ".", 1) # 0 => IsDigits(FractionDigits(s))

\* a decimal string with no more fractional digits than the type holds
IsRateString(s) == IsDecimalString(s) /\ Len(FractionDigits(s)) <= DecimalPlaces

\* the value of such a string, in units of the last fractional digit held
ValueAtomics(s) ==
  NumeralValue(WholeDigits(s)) * DECIMAL_FRACTIONAL
    + NumeralValue(FractionDigits(s)) * Pow(10, DecimalPlaces - Len(FractionDigits(s)))

\* C25 as stated: parse succeeds on every decimal string with at most
\* DecimalPlaces fractional digits and a value above zero, fails with
\* InvalidRateZero when the value is zero, and fails with InvalidRateParsing
\* on strings with a minus sign, on strings that are no decimal string and on
\* strings with more fractional digits.
C25_RateParseAsStated ==
  ParseReturned =>
    /\ (IsRateString(call.msg) /\ ValueAtomics(call.msg) > 0) => result.err = "none"
    /\ (IsRateString(call.msg) /\ ValueAtomics(call.msg) = 0) =>
         result.err = "InvalidRateZero"
    /\ ~IsRateString(call.msg) => result.err = "InvalidRateParsing"

\* C25 as amended: parse succeeds, with the value denoted, on every decimal
\* string with at most DecimalPlaces fractional digits whose value is above
\* zero and within the range of the type; it fails with InvalidRateZero when
\* the value is zero; and it fails with InvalidRateParsing on every other
\* string: one with a minus sign, one that is no decimal string, one with
\* more fractional digits, and one whose value is beyond the range.
C25_RateParse ==
  ParseReturned =>
    /\ (IsRateString(call.msg) /\ ValueAtomics(call.msg) > 0
          /\ ValueAtomics(call.msg) <= MaxUint) =>
         (result.err = "none" /\ result.data.v = ValueAtomics(call.msg))
    /\ (IsRateString(call.msg) /\ ValueAtomics(call.msg) = 0) =>
         result.err = "InvalidRateZero"
    /\ (IsRateString(call.msg) /\ ValueAtomics(call.msg) > MaxUint) =>
         result.err = "InvalidRateParsing"
    /\ ~IsRateString(call.msg) => result.err = "InvalidRateParsing"

\* parse succeeded on a string below 1 that uses every fractional digit
C25_Witness ==
  /\ ParseReturned /\ result.err = "none"
  /\ Len(FractionDigits(call.msg)) = DecimalPlaces
  /\ result.data.v < DECIMAL_FRACTIONAL

\* s satisfies the grammar its prefix selects: ibc, factory or native
WellFormedDenom(s) ==
  \/ starts_with(s, IBC_PREF) /\ is_ibc(s)
  \/ ~starts_with(s, IBC_PREF) /\ starts_with(s, FACTORY_PREF) /\ is_factory(s)
  \/ ~starts_with(s, IBC_PREF) /\ ~starts_with(s, FACTORY_PREF) /\ is_native(s)

\* C26: in every state after a successful instantiate the stored
\* configuration is well-formed: its rate is above zero (and within the
\* type), and its source_denom and target_denom each satisfy one of the three
\* denomination grammars; its poa_admin is an address the host accepts.
C26_StoredConfigWellFormed ==
  Instantiated =>
    /\ CONFIG.v.rate > 0 /\ CONFIG.v.rate <= MaxUint
    /\ WellFormedDenom(CONFIG.v.source_denom)
    /\ WellFormedDenom(CONFIG.v.target_denom)
    /\ CONFIG.v.poa_admin \in ValidAddrs

\* an update_config whose request carried the zero rate was refused, after a
\* valid poa_admin had been applied to the candidate
C26_Witness ==
  /\ Answered("update_config") /\ result.err = "InvalidRateZero"
  /\ is_some(call.msg.poa_admin) /\ call.msg.poa_admin.v # PreConfig.poa_admin
  /\ CONFIG.v.rate > 0

\* Denom::new has returned for the string call.msg
DenomReturned == Answered("denom_new") /\ result.note = "returned"
DenomAccepted == DenomReturned /\ result.err = "none"

\* C27: Denom validation answers every string, and the kind of a refusal
\* follows the prefix alone: the empty string is EmptyDenom; a string that
\* starts with ibc/ is accepted or InvalidIbcDenomFormat; otherwise one that
\* starts with factory/ is accepted or InvalidFactoryDenomFormat; every other
\* string is accepted or InvalidDenomFormat.
C27_ErrorKindByPrefix ==
  DenomReturned =>
    LET s == call.msg
    IN  /\ s = <<>> => result.err = "EmptyDenom"
        /\ starts_with(s, IBC_PREF) =>
             result.err \in {"none", "InvalidIbcDenomFormat"}
        /\ ~starts_with(s, IBC_PREF) /\ starts_with(s, FACTORY_PREF) =>
             result.err \in {"none", "InvalidFactoryDenomFormat"}
        /\ s # <<>> /\ ~starts_with(s, IBC_PREF) /\ ~starts_with(s, FACTORY_PREF) =>
             result.err \in {"none", "InvalidDenomFormat"}

\* a string under ibc/ whose hash is one character short was refused as an
\* ibc denomination
C27_Witness ==
  /\ DenomReturned /\ starts_with(call.msg, IBC_PREF)
  /\ Len(call.msg) = Len(IBC_PREF) + IBC_HASH_LEN - 1
  /\ result.err = "InvalidIbcDenomFormat"

LowerLetters ==
  {"a", "b", "c", "d", "e", "f", "g", "h", "i", "j", "k", "l", "m",
   "n", "o", "p", "q", "r", "s", "t", "u", "v", "w", "x", "y", "z"}
UpperLetters ==
  {"A", "B", "C", "D", "E", "F", "G", "H", "I", "J", "K", "L", "M",
   "N", "O", "P", "Q", "R", "S", "T", "U", "V", "W", "X", "Y", "Z"}
DecimalDigits == {"0", "1", "2", "3", "4", "5", "6", "7", "8", "9"}

\* C28: a string that starts with neither prefix is accepted exactly when its
\* length is 3 to 128, its first character is u and the others are lowercase
\* letters or digits; the accepted Denom holds the input itself; uatom is
\* accepted; atom, a, u, ux and a string of 256 characters are refused.
C28_NativeGrammar ==
  DenomReturned /\ ~starts_with(call.msg, IBC_PREF)
                /\ ~starts_with(call.msg, FACTORY_PREF) =>
    LET s == call.msg
    IN  /\ result.err = "none" <=>
             /\ Len(s) >= 3 /\ Len(s) <= 128
             /\ s[1] = "u"
             /\ \A i \in 2..Len(s) : s[i] \in LowerLetters \cup DecimalDigits
        /\ result.err = "none" => result.data = Some(s)
        /\ s = uatom => result.err = "none"
        /\ s \in {atom, <<"a">>, <<"u">>, <<"u", "x">>} \/ Len(s) = 256 =>
             result.err # "none"

\* a native denomination of the greatest length was accepted
C28_Witness ==
  /\ DenomAccepted /\ call.msg[1] = "u" /\ Len(call.msg) = 128
  /\ result.data = Some(call.msg)

\* C29: a string that starts with ibc/ is accepted exactly when what follows
\* the prefix has 64 characters, each a digit or one of A to F; anything else
\* under the prefix is refused with InvalidIbcDenomFormat.
C29_IbcGrammar ==
  DenomReturned /\ starts_with(call.msg, IBC_PREF) =>
    LET hash == SubSeq(call.msg, 5, Len(call.msg))
        wellformed ==
          /\ Len(hash) = 64
          /\ \A i \in 1..Len(hash) :
               hash[i] \in DecimalDigits \cup {"A", "B", "C", "D", "E", "F"}
    IN  /\ result.err = "none" <=> wellformed
        /\ ~wellformed => result.err = "InvalidIbcDenomFormat"

\* the ibc denomination of the tests was accepted
C29_Witness ==
  DenomAccepted /\ call.msg = IBC_PREF \o TestIbcHash

\* the positions of the character c in s
Positions(s, c) == {i \in 1..Len(s) : s[i] = c}

\* C30: a string that starts with factory/ is accepted exactly when what
\* follows the prefix has one '/', so two segments; the first decodes as a
\* checksummed bech32 string, whatever its hrp; the second has 1 to 128
\* characters, each an ASCII letter, a digit or one of . : _ -; anything else
\* under the prefix is refused with InvalidFactoryDenomFormat.
C30_FactoryGrammar ==
  DenomReturned /\ starts_with(call.msg, FACTORY_PREF) =>
    LET rest == SubSeq(call.msg, 9, Len(call.msg))
        slashes == Positions(rest, "/")
        at == CHOOSE i \in slashes : TRUE
        creator == SubSeq(rest, 1, at - 1)
        subdenom == SubSeq(rest, at + 1, Len(rest))
        wellformed ==
          /\ Cardinality(slashes) = 1
          /\ bech32_decode_ok(creator)
          /\ Len(subdenom) >= 1 /\ Len(subdenom) <= 128
          /\ \A i \in 1..Len(subdenom) :
               subdenom[i] \in LowerLetters \cup UpperLetters \cup DecimalDigits
                               \cup {".", ":", "_", "-"}
    IN  /\ result.err = "none" <=> wellformed
        /\ ~wellformed => result.err = "InvalidFactoryDenomFormat"

\* a factory denomination was accepted whose creator is the address of the
\* tests and whose subdenom uses the four punctuation characters
C30_Witness ==
  /\ DenomAccepted
  /\ call.msg = FACTORY_PREF \o TestCreator \o <<"/">>
                  \o <<"a", ".", "b", ":", "c", "_", "d", "-", "E", "9">>

\* the poa_admin and rate fields of the request are unset or valid
PoaAndRateValid ==
  /\ is_none(call.msg.poa_admin) \/ call.msg.poa_admin.v \in ValidAddrs
  /\ is_none(call.msg.rate) \/ RateParse(call.msg.rate.v).ok

\* C31: update_config compares source_denom with target_denom only on the
\* final candidate.  A request by the admin that sets both denominations to
\* two valid, different values is accepted and stores them, also when the new
\* source_denom is the stored target_denom (a swap in one request); a request
\* that sets only one denomination, to the stored value of the other, is
\* refused with SameDenom and changes nothing; and SameDenom is returned only
\* when the denominations of the final candidate are equal.
C31_SameDenomOnFinalCandidate ==
  AdminUpdateConfig =>
    LET m == call.msg
        source == Updated(m.source_denom, m.source_denom.v, PreConfig.source_denom)
        target == Updated(m.target_denom, m.target_denom.v, PreConfig.target_denom)
    IN  /\ (/\ is_some(m.source_denom) /\ is_some(m.target_denom)
            /\ WellFormedDenom(source) /\ WellFormedDenom(target)
            /\ source # target /\ PoaAndRateValid) =>
             /\ result.err = "none"
             /\ CONFIG.v.source_denom = source /\ CONFIG.v.target_denom = target
        /\ (/\ m.source_denom = Some(PreConfig.target_denom)
            /\ is_none(m.target_denom) /\ PoaAndRateValid) =>
             result.err = "SameDenom" /\ Storage = pre
        /\ (/\ m.target_denom = Some(PreConfig.source_denom)
            /\ is_none(m.source_denom) /\ PoaAndRateValid) =>
             result.err = "SameDenom" /\ Storage = pre
        /\ result.err = "SameDenom" => source = target

\* the admin swapped the two denominations in one request, which was saved
C31_Witness ==
  /\ AdminUpdateConfig
  /\ call.msg.source_denom = Some(PreConfig.target_denom)
  /\ call.msg.target_denom = Some(PreConfig.source_denom)
  /\ result.err = "none" /\ result.saves = 1
  /\ CONFIG.v.source_denom = PreConfig.target_denom
  /\ CONFIG.v.target_denom = PreConfig.source_denom

\* the names of the fields the request sets
SetFields(m) ==
  {f \in {"poa_admin", "rate", "source_denom", "target_denom", "paused"} :
     m[f].some}

\* C32: UpdateConfig::is_empty holds exactly of the request with no field
\* set; an update_config by the admin is answered as an empty update exactly
\* when no field is set, so a request with a single field, whichever it is,
\* goes on to the load of the configuration.
C32_IsEmptyIffNoFieldSet ==
  Answered("update_config") =>
    /\ is_empty(call.msg) <=> SetFields(call.msg) = {}
    /\ AdminUpdateConfig =>
         /\ result.note = "empty config, no changes made" <=> SetFields(call.msg) = {}
         /\ SetFields(call.msg) # {} => result.loads = 1

\* the admin set the paused field alone and the configuration was loaded
C32_Witness ==
  /\ AdminUpdateConfig /\ SetFields(call.msg) = {"paused"}
  /\ ~is_empty(call.msg)
  /\ result.note # "empty config, no changes made" /\ result.loads = 1

\* the cw2 record this code writes
LatestVersion == Some([contract |-> CONTRACT_NAME, version |-> CONTRACT_VERSION])

\* C33: migrate fails with InvalidContractName exactly when the stored
\* contract name is not this contract's name, and then changes nothing;
\* otherwise it succeeds, leaves the configuration and the admin as they
\* were and the stored version equal to the code's version, so that a migrate
\* repeated at once answers 'already at latest version' and writes nothing.
C33_Migrate ==
  Answered("migrate") =>
    /\ result.err = "InvalidContractName" <=>
         pre.contract_version.v.contract # CONTRACT_NAME
    /\ result.err = "InvalidContractName" => Storage = pre
    /\ pre.contract_version.v.contract = CONTRACT_NAME =>
         /\ result.err = "none"
         /\ CONFIG = pre.CONFIG /\ ADMIN = pre.ADMIN
         /\ contract_version = LatestVersion
         /\ migrate(Storage).err = "none"
         /\ migrate(Storage).note = "already at latest version"
         /\ migrate(Storage).st = Storage
    /\ pre.contract_version = LatestVersion =>
         result.note = "already at latest version" /\ Storage = pre

\* a storage of this contract at an earlier version was migrated
C33_Witness ==
  /\ Answered("migrate") /\ result.err = "none"
  /\ pre.contract_version.v.contract = CONTRACT_NAME
  /\ pre.contract_version.v.version # CONTRACT_VERSION
  /\ contract_version = LatestVersion

\* the error of the first check in the list that fails, "none" when all pass
RECURSIVE FirstFailure(_)
FirstFailure(checks) ==
  IF checks = <<>> THEN "none"
  ELSE IF checks[1] # "none" THEN checks[1]
  ELSE FirstFailure(Tail(checks))

\* the error a rate string gives: not a decimal number, or zero
RateError(s) ==
  IF ~Rate_parse(s).ok THEN "InvalidRateParsing"
  ELSE IF Rate_parse(s).val = 0 THEN "InvalidRateZero"
  ELSE "none"

\* the error a denomination string gives
DenomError(s) == IF WellFormedDenom(s) THEN "none" ELSE DenomValidate(s).err

\* the error an address string gives
AddrError(s) == IF s \in ValidAddrs THEN "none" ELSE "StdError"

FieldError(f, e) == IF is_none(f) THEN "none" ELSE e

C36_AdminNeverAbsent ==
  Instantiated => is_some(ADMIN) /\ ADMIN.v \in ValidAddrs

\* the admin, an address other than the first input address, asked to
\* renounce, was refused and is still the admin
C36_Witness ==
  /\ Answered("update_admin") /\ call.msg = None
  /\ call.info.sender = "manifest1user"
  /\ result.err = "CannotRenounce"
  /\ ADMIN = Some("manifest1user")

\* update_config reached the storage write
UpdateConfigWrote ==
  /\ Answered("update_config") /\ result.err = "none"
  /\ result.note # "empty config, no changes made"
  /\ result.note # "identical config, no changes made"

\* C37: whenever update_config reaches the storage write, the configuration
\* it stores differs from the one stored before the call in at least one
\* field; so a request whose validated values all equal the stored
\* configuration is answered as a no-op, without a write.
C37_WriteChangesConfig ==
  /\ UpdateConfigWrote => CONFIG # pre.CONFIG
  /\ AdminUpdateConfig /\ SetFields(call.msg) # {} /\ result.err = "none"
       /\ CONFIG = pre.CONFIG =>
       result.note = "identical config, no changes made" /\ result.saves = 0

\* the admin sent the rate as 2.0 while the stored rate was 2, whose
\* serialized form is 2: the request was not taken for a no-op and the same
\* configuration was saved again
C37_Witness ==
  /\ UpdateConfigWrote /\ result.saves = 1
  /\ call.msg.rate = Some(<<"2", ".", "0">>)
  /\ PreConfig.rate = 2 * DECIMAL_FRACTIONAL
  /\ CONFIG = pre.CONFIG

\* the storage st with the pause flag of its configuration inverted
OtherPause(st) ==
  [st EXCEPT !.CONFIG = Some([st.CONFIG.v EXCEPT !.paused = ~st.CONFIG.v.paused])]

\* the request that sets paused = false and nothing else
OnlyUnpause ==
  [poa_admin |-> None, rate |-> None, source_denom |-> None,
   target_denom |-> None, paused |-> Some(FALSE)]

\* C38: the paused flag gates only convert.  An update_config or update_admin
\* ends with the same error, or with success, as the same call would on the
\* same storage with the pause flag inverted; an update_config by the admin
\* with only paused = false on a paused contract succeeds and stores the
\* configuration with paused = false and its other fields as they were; and
\* in every state with a paused configuration that call is open to the admin.
C38_PauseGatesOnlyConvert ==
  /\ Answered("update_config") =>
       result.err = update_config(OtherPause(pre), call.info, call.msg).err
  /\ Answered("update_admin") =>
       /\ result.err = update_admin(OtherPause(pre), call.info, call.msg).err
       /\ CONFIG = pre.CONFIG
  /\ (AdminUpdateConfig /\ PreConfig.paused /\ call.msg = OnlyUnpause) =>
       /\ result.err = "none"
       /\ CONFIG = Some([PreConfig EXCEPT !.paused = FALSE])
  /\ (Instantiated /\ CONFIG.v.paused /\ is_some(ADMIN)) =>
       LET out == update_config(Storage, Info(ADMIN.v, <<>>), OnlyUnpause)
       IN  out.err = "none" /\ ~out.st.CONFIG.v.paused

\* on a paused contract the admin changed the rate and a denomination and
\* left the pause flag alone
C38_Witness ==
  /\ AdminUpdateConfig /\ result.err = "none" /\ result.saves = 1
  /\ PreConfig.paused /\ CONFIG.v.paused
  /\ CONFIG.v.rate # PreConfig.rate
  /\ CONFIG.v.source_denom # PreConfig.source_denom

\* C39: convert uses the configuration stored at the time of the call.  The
\* configuration a successful update_config has stored is still the stored
\* one when its response has been delivered, and a convert called on a stored
\* configuration c mints floor(c.rate * amount) of c.target_denom, sends and
\* burns the deposit of c.source_denom, addresses the transfer, the burn and
\* the mint to c.poa_admin, and refuses a single coin of any other
\* denomination, the source_denom of an earlier configuration included, with
\* InvalidSourceDenom.
C39_ConvertUsesStoredConfig ==
  [][ /\ (call.op = "update_config" /\ call'.op = "none") => CONFIG' = CONFIG
      /\ (call'.op = "convert") =>
           LET c == CONFIG.v
               funds == call'.info.funds
               send == result'.messages[1]
               exec == result'.messages[2]
           IN  /\ pre'.CONFIG = CONFIG
               /\ result'.err = "none" =>
                    /\ Len(funds) = 1 /\ funds[1].denom = c.source_denom
                    /\ Len(result'.messages) = 2
                    /\ send.to_address = c.poa_admin
                    /\ send.amount = <<Coin(funds[1].amount, c.source_denom)>>
                    /\ exec.msgs[1].authority = c.poa_admin
                    /\ exec.msgs[1].burn_coins[1].denom = c.source_denom
                    /\ exec.msgs[2].sender = c.poa_admin
                    /\ exec.msgs[2].amount.denom = c.target_denom
                    /\ UintFromStr(exec.msgs[2].amount.amount) =
                         Ok((c.rate * funds[1].amount) \div DECIMAL_FRACTIONAL)
               /\ (~c.paused /\ Len(funds) = 1 /\ funds[1].amount # 0
                     /\ funds[1].denom # c.source_denom) =>
                    result'.err = "InvalidSourceDenom"
    ]_vars

\* a convert succeeded on a configuration whose rate, denominations and
\* poa_admin all differ from those the instance was instantiated with, and
\* minted to the new values
C39_Witness ==
  /\ Answered("convert") /\ result.err = "none"
  /\ PreConfig.rate # InitialConfig.rate
  /\ PreConfig.source_denom # InitialConfig.source_denom
  /\ PreConfig.target_denom # InitialConfig.target_denom
  /\ PreConfig.poa_admin # InitialConfig.poa_admin
  /\ result.messages[1].to_address = PreConfig.poa_admin
  /\ result.messages[2].msgs[2].amount.denom = PreConfig.target_denom

====
